---- MODULE Spec2Model ----
(***************************************************************************)
(* Model of the review-annotation pipeline of fintech_app_reviews:         *)
(*   nlp/sentiment_bert.py    batched, parallel model-engine scoring        *)
(*   nlp/sentiment.py         lexicon engine                                *)
(*   nlp/sentiment_compat.py  model-to-pipeline columns, reconciliation     *)
(*   nlp/themes.py            text normalization, rule-based themes         *)
(*   nlp/keywords.py          per-row keyword tagging, TF-IDF terms         *)
(*   reports, analysis        per-bank and per-theme aggregation            *)
(*   scraper, scripts         paginated scraping and its retry loop         *)
(*   preprocessing, utils     review cleaning                               *)
(*   db/loader.py             chunked upsert and per-bank counts            *)
(* Scores and probabilities are integers in hundredths (0.85 is 85).        *)
(* Python lists are sequences; a Python index i is position i + 1.          *)
(***************************************************************************)
EXTENDS Integers, Sequences, FiniteSets, TLC

\* ------------------------------------------------------------ bounds
MaxRows == 4
MaxBatchSize == 3
MaxWorkers == 2
MaxTableRows == 1     \* rows of a table given to the column functions
MaxResults == 2       \* results the classifier returns for one batch
MaxPieces == 3        \* pieces a text is made of
MaxCandidates == 3    \* candidate terms given to the keyword tagging
MaxTopK == 2          \* the cap top_k
MaxDocs == 3          \* rows of the table given to the keyword pipeline
MaxAggRows == 2       \* rows of the table given to the aggregators
MaxReviews == 4       \* max_reviews of a scrape
MaxScrapeBatch == 3   \* the scraper's batch_size
MaxApps == 2          \* app ids in the scraper's configuration
MaxRetries == 1       \* the scraper's configured retries
MaxCleanRows == 3     \* rows of the table given to clean_reviews
MaxLoadRows == 3      \* rows of the table given to load_reviews_from_df
MaxLoadBatch == 3     \* the loader's batch_size

VARIABLES
    \* annotate_dataframe_parallel (sentiment_bert.py)
    n,             \* len(texts)
    batch_size,
    max_workers,
    submitted,     \* number of futures submitted so far
    fstate,        \* batch index -> "new" | "queued" | "running" | "done" | "collected"
    foutcome,      \* batch index -> what the engine did for the batch
    interleaved,   \* whether as_completed yielded a batch after a later-submitted one
    results,       \* the results list
    warnings,      \* number of logger.warning calls about a batch
    df,            \* the returned columns
    pc,
    \* one call of a function of the pipeline on a table, a row or a text
    call,          \* the function called and its arguments
    ret,           \* what the call returned or raised
    \* scrape_app_reviews (google_play_scraper.py)
    scrape,        \* all_reviews, continuation_token, the requests made so far, pc
    \* run_scraper_pipeline (scripts/scrape_reviews.py)
    scraper_pipeline   \* the configuration, the loop position, all_reviews, the calls made

batchVars == <<n, batch_size, max_workers, submitted, fstate, foutcome, interleaved,
               results, warnings, df, pc>>

callVars == <<call, ret>>

vars == <<batchVars, callVars, scrape, scraper_pipeline>>

\* ------------------------------------------------------------ Python helpers
Min(a, b) == IF a < b THEN a ELSE b

Max(a, b) == IF a > b THEN a ELSE b

\* s[lo:hi] for 0 <= lo, 0 <= hi
PySlice(s, lo, hi) == SubSeq(s, Min(lo, Len(s)) + 1, Min(hi, Len(s)))

\* a plausible bug: append the batch instead of writing it to its slice
PySliceAssignAppend(s, lo, hi, vals) == s \o vals

\* s[lo:hi] = vals : the slice is clipped to the list, then replaced by vals,
\* whatever the length of vals
PySliceAssign(s, lo, hi, vals) ==
    LET l == Min(lo, Len(s))
        h == Max(l, Min(hi, Len(s)))
    IN  SubSeq(s, 1, l) \o vals \o SubSeq(s, h + 1, Len(s))

\* ceil(a / b)
Ceil(a, b) == (a + b - 1) \div b

\* str.lower() on the label strings the engines and tables carry
Lower(s) ==
    CASE s = "POSITIVE" -> "positive"
      [] s = "NEGATIVE" -> "negative"
      [] s = "NEUTRAL"  -> "neutral"
      [] s = "LABEL_2"  -> "label_2"
      [] s = "Mixed"    -> "mixed"
      [] s = "POS"      -> "pos"
      [] s = "NEG"      -> "neg"
      [] OTHER          -> s

\* a call that has not returned yet
Pending == [done |-> FALSE]

Returned(v) == [done |-> TRUE, raised |-> FALSE, value |-> v]

Raised == [done |-> TRUE, raised |-> TRUE, value |-> <<>>]

\* a continuation token: None, or the token the k-th request returned
NoToken == [is_none |-> TRUE, id |-> 0]

Token(k) == [is_none |-> FALSE, id |-> k]

\* scrape_app_reviews is not running
NoScrape ==
    scrape = [pc |-> "idle", all_reviews |-> <<>>, continuation_token |-> NoToken,
              requests |-> <<>>]

\* run_scraper_pipeline is not running
NoScraperPipeline == scraper_pipeline = [pc |-> "idle"]

\* ------------------------------------------------------------ model engine
None == [isNone |-> TRUE, label |-> "", score |-> 0]

Result(l, s) == [isNone |-> FALSE, label |-> l, score |-> s]

NeutralDefault == Result("neutral", 0)

\* the text of row i (1-based) after fillna("").tolist(); rows carry distinct texts
TextOf(i) == i

\* the pretrained classifier on one text: a label and a probability
Classifier(t) ==
    [label |-> IF t % 3 = 1 THEN "POSITIVE" ELSE IF t % 3 = 2 THEN "NEGATIVE" ELSE "LABEL_2",
     score |-> 50 + 10 * t]

\* dict.get(key, default)
DictGet(d, key, default) == IF key \in DOMAIN d THEN d[key] ELSE default

\* a plausible bug: the probability is kept unsigned
SignedResultUnsigned(r) ==
    Result(Lower(DictGet(r, "label", "neutral")), DictGet(r, "score", 0))

\* lines 44-47: lower-case the label, sign the probability
SignedResult(r) ==
    LET label == Lower(DictGet(r, "label", "neutral"))
        score == DictGet(r, "score", 0)
    IN  Result(label,
               IF label = "positive" THEN score
               ELSE IF label = "negative" THEN 0 - score ELSE 0)

\* the classifier on a list of texts, one result per text
ClassifyAll(ts) == [k \in 1..Len(ts) |-> Classifier(ts[k])]

\* lines 42-48: the loop over the results
SignAll(rs) == [k \in 1..Len(rs) |-> SignedResult(rs[k])]

\* what the engine does with one batch:
\*   "ok"    one result per text
\*   "raise" the call model(safe_texts) raises
\*   "short" it returns one result fewer than it was given texts
\*   "bad"   it returns an entry that is no dict, so r.get raises after the try
Outcomes == {"ok", "raise", "short", "bad"}

\* a plausible bug: no try/except around the model call
get_sentiment_score_batch_nocatch(texts, outcome) ==
    IF outcome \in {"bad", "raise"}
    THEN [raised |-> TRUE, out |-> <<>>]
    ELSE LET raw == IF outcome = "short"
                    THEN SubSeq(ClassifyAll(texts), 1, Len(texts) - 1)
                    ELSE ClassifyAll(texts)
         IN  [raised |-> FALSE, out |-> SignAll(raw)]

get_sentiment_score_batch(texts, outcome) ==
    IF outcome = "bad"
    THEN [raised |-> TRUE, out |-> <<>>]
    ELSE LET raw == CASE outcome = "ok"    -> ClassifyAll(texts)
                      [] outcome = "short" -> SubSeq(ClassifyAll(texts), 1, Len(texts) - 1)
                      [] outcome = "raise" -> [k \in 1..Len(texts) |->
                                                  [label |-> "neutral", score |-> 0]]
         IN  [raised |-> FALSE, out |-> SignAll(raw)]

\* ------------------------------------------------------------ annotate_dataframe_parallel
texts == [i \in 1..n |-> TextOf(i)]

n_batches == Ceil(n, batch_size)

Batches == 0..(n_batches - 1)

\* texts[i*batch_size:(i+1)*batch_size]
batch_texts(i) == PySlice(texts, i * batch_size, (i + 1) * batch_size)

\* future.result() of batch i
future_result(i) == get_sentiment_score_batch(batch_texts(i), foutcome[i])

\* lines 84-89: the batch's result, or batch_size neutral defaults when the future raised
batch_result(i) ==
    IF future_result(i).raised
    THEN [k \in 1..batch_size |-> NeutralDefault]
    ELSE future_result(i).out

Running == {b \in Batches : fstate[b] = "running"}

InitBatch ==
    /\ n \in 0..MaxRows
    /\ batch_size \in 1..MaxBatchSize
    /\ max_workers \in 1..MaxWorkers
    /\ submitted = 0
    /\ fstate = [b \in Batches |-> "new"]
    /\ foutcome = [b \in Batches |-> "none"]
    /\ interleaved = FALSE
    /\ results = [i \in 1..n |-> None]
    /\ warnings = 0
    /\ df = [assigned |-> FALSE, sentiment_label |-> <<>>, sentiment_score |-> <<>>]
    /\ pc = IF n_batches = 0 THEN "collect" ELSE "submit"
    /\ call = [fn |-> "annotate_dataframe_parallel"]
    /\ ret = Pending
    /\ NoScrape
    /\ NoScraperPipeline

\* lines 76-80: executor.submit of the next batch
Submit ==
    /\ pc = "submit"
    /\ fstate' = [fstate EXCEPT ![submitted] = "queued"]
    /\ submitted' = submitted + 1
    /\ pc' = IF submitted + 1 = n_batches THEN "collect" ELSE "submit"
    /\ UNCHANGED <<scrape, scraper_pipeline, call, ret, n, batch_size, max_workers, foutcome, interleaved, results, warnings, df>>

\* a free worker of the pool takes the oldest queued batch
Start(b) ==
    /\ fstate[b] = "queued"
    /\ \A c \in Batches : c < b => fstate[c] # "queued"
    /\ Cardinality(Running) < max_workers
    /\ fstate' = [fstate EXCEPT ![b] = "running"]
    /\ UNCHANGED <<scrape, scraper_pipeline, call, ret, n, batch_size, max_workers, submitted, foutcome, interleaved, results,
                   warnings, df, pc>>

\* get_sentiment_score_batch returns or raises in its worker thread
Finish(b, o) ==
    /\ fstate[b] = "running"
    /\ fstate' = [fstate EXCEPT ![b] = "done"]
    /\ foutcome' = [foutcome EXCEPT ![b] = o]
    /\ warnings' = IF o = "raise" THEN warnings + 1 ELSE warnings
    /\ UNCHANGED <<scrape, scraper_pipeline, call, ret, n, batch_size, max_workers, submitted, interleaved, results, df, pc>>

\* lines 82-92: one iteration of the as_completed loop
Collect(b) ==
    /\ pc = "collect"
    /\ fstate[b] = "done"
    /\ LET start == b * batch_size
       IN  results' = PySliceAssign(results, start, start + Len(batch_result(b)),
                                    batch_result(b))
    /\ warnings' = IF future_result(b).raised THEN warnings + 1 ELSE warnings
    /\ fstate' = [fstate EXCEPT ![b] = "collected"]
    /\ interleaved' = (interleaved \/ \E c \in Batches : c > b /\ fstate[c] = "collected")
    /\ UNCHANGED <<scrape, scraper_pipeline, call, ret, n, batch_size, max_workers, submitted, foutcome, df, pc>>

AllCollected == pc # "submit" /\ \A b \in Batches : fstate[b] = "collected"

\* lines 95-103: the two column assignments; r["label"] on None raises TypeError,
\* a list of another length than the table raises ValueError
Fill ==
    /\ pc = "collect"
    /\ AllCollected
    /\ IF Len(results) = n /\ \A i \in 1..Len(results) : ~results[i].isNone
       THEN /\ df' = [assigned |-> TRUE,
                      sentiment_label |-> [i \in 1..n |-> results[i].label],
                      sentiment_score |-> [i \in 1..n |-> results[i].score]]
            /\ pc' = "returned"
       ELSE /\ df' = df
            /\ pc' = "error"
    /\ UNCHANGED <<scrape, scraper_pipeline, call, ret, n, batch_size, max_workers, submitted, fstate, foutcome, interleaved,
                   results, warnings>>

NextBatch ==
    \/ Submit
    \/ \E b \in Batches : Start(b)
    \/ \E b \in Batches, o \in Outcomes : Finish(b, o)
    \/ \E b \in Batches : Collect(b)
    \/ Fill

Spec == InitBatch /\ [][NextBatch]_vars

\* ------------------------------------------------------------ claims on the batch run
\* rows (1-based) of batch b
RowsOf(b) == (b * batch_size + 1)..Min((b + 1) * batch_size, n)

\* the result the engine produced for the text of row i, as the pipeline signs it
EngineResult(i) == SignedResult(Classifier(TextOf(i)))

\* number of results the engine returned for batch b
Produced(b) ==
    CASE foutcome[b] = "ok"    -> Len(batch_texts(b))
      [] foutcome[b] = "short" -> Len(batch_texts(b)) - 1
      [] OTHER                 -> 0

\* C1: once every batch has been collected, in whatever order, the j-th result the
\* engine produced for batch b is at index b*batch_size + j of the results list, and
\* the returned columns carry it in that row.
C1_ScatterByIndex ==
    AllCollected =>
        \A b \in Batches : \A j \in 1..Produced(b) :
            LET i == b * batch_size + j
            IN  /\ i <= Len(results)
                /\ results[i] = EngineResult(i)
                /\ pc = "returned" =>
                       /\ df.sentiment_label[i] = EngineResult(i).label
                       /\ df.sentiment_score[i] = EngineResult(i).score

\* three batches or more, collected out of submission order, the table returned
C1_Witness ==
    /\ pc = "returned"
    /\ interleaved
    /\ n_batches >= 3
    /\ \A b \in Batches : foutcome[b] = "ok"

NaN == "<NaN>"

Canonical == {"positive", "negative", "neutral"}

\* a cell of a score column: a number, NaN, or text that is no number
NumCell(v) == [kind |-> "num", v |-> v]

NaNCell == [kind |-> "nan", v |-> 0]

TextCell == [kind |-> "text", v |-> 0]

\* pd.to_numeric(col, errors="coerce").fillna(0.0).astype(float)
ToNumeric(c) == IF c.kind = "num" THEN c.v ELSE 0

\* Series.fillna(d) on one cell
FillNa(c, d) == IF c = NaN THEN d ELSE c

\* Series.astype(str) on one cell
AsStr(c) == IF c = NaN THEN "nan" ELSE c

\* ------------------------------------------------------------ sentiment_compat.py
hf_confidence_threshold == 85

\* a plausible bug: the boundary excluded
MaskStrict(score) == score > hf_confidence_threshold

\* line 111: mask = out[hf_score_col] >= hf_confidence_threshold
Mask(score) == score >= hf_confidence_threshold

\* lines 115-116 and 75-77: keep a canonical label, anything else becomes neutral
Normalize(s) == IF s \in Canonical THEN s ELSE "neutral"

\* lines 107-116 on one row of a table that has all three columns
final_row(r) ==
    LET score  == ToNumeric(r.hf_score)
        vader  == FillNa(r.sentiment_label, "")
        merged == IF Mask(score) THEN FillNa(r.hf_label, vader) ELSE vader
    IN  Normalize(FillNa(merged, "neutral"))

\* compute_final_sentiment: the final_sentiment column of the returned copy.
\* Without the model columns the lexicon column is copied (NaN filled, no
\* normalization); with them but without the lexicon column, out.get(col, "")
\* is the string "" and "".fillna raises AttributeError.
compute_final_sentiment(t) ==
    IF ~t.has_hf
    THEN Returned([k \in 1..Len(t.rows) |->
                     IF t.has_vader THEN FillNa(t.rows[k].sentiment_label, "neutral")
                     ELSE "neutral"])
    ELSE IF ~t.has_vader
         THEN Raised
         ELSE Returned([k \in 1..Len(t.rows) |-> final_row(t.rows[k])])

\* line 59-61: astype(str).str.lower().replace({"pos": "positive", "neg": "negative"})
hf_label_norm(c) ==
    LET l == Lower(AsStr(c))
    IN  IF l = "pos" THEN "positive" ELSE IF l = "neg" THEN "negative" ELSE l

\* lines 65-72: _signed
signed(lab, score) ==
    IF lab = "positive" THEN score ELSE IF lab = "negative" THEN 0 - score ELSE 0

\* hf_to_sentiment_columns: the rows of the returned copy
hf_to_sentiment_columns(t) ==
    IF ~t.has_hf
    THEN Raised
    ELSE Returned([k \in 1..Len(t.rows) |->
                     LET lab   == hf_label_norm(t.rows[k].hf_label)
                         score == ToNumeric(t.rows[k].hf_score)
                     IN  [hf_label |-> lab,
                          hf_score |-> score,
                          sentiment_score |-> signed(lab, score),
                          sentiment_label |-> Normalize(lab)]])

\* ------------------------------------------------------------ sentiment.py
PositiveThreshold == 5

NegativeThreshold == -5

\* get_sentiment_score: text is [is_str, empty]; polarity is what
\* model.polarity_scores(text) does: it raises, or gives a compound score
get_sentiment_score(text, polarity) ==
    IF text.empty \/ ~text.is_str
    THEN [label |-> "neutral", score |-> 0]
    ELSE IF polarity.raises
         THEN [label |-> "neutral", score |-> 0]
         ELSE LET score == polarity.compound
              IN  [label |-> IF score >= PositiveThreshold THEN "positive"
                             ELSE IF score <= NegativeThreshold THEN "negative"
                             ELSE "neutral",
                   score |-> score]

\* ------------------------------------------------------------ calls of the sentiment functions
HfLabels == {"positive", "negative", "neutral", "NEGATIVE", NaN}

HfScores == {NumCell(90), NumCell(85), NumCell(84), NaNCell, TextCell}

VaderLabels == {"positive", "negative", "mixed", NaN}

TableRows == [hf_label : HfLabels, hf_score : HfScores, sentiment_label : VaderLabels]

SeqsUpTo(S, k) == UNION {[1..m -> S] : m \in 0..k}

\* a table with or without the model columns and the lexicon column
Tables == [has_hf : BOOLEAN, has_vader : BOOLEAN, rows : SeqsUpTo(TableRows, MaxTableRows)]

\* what the classifier may return for one text: a label and a probability in [0, 1],
\* or a dict that lacks one of the keys
RawResults ==
    [label : {"POSITIVE", "NEGATIVE", "neutral", "LABEL_2"}, score : {0, 50, 100}]
        \cup {[score |-> 90], [label |-> "POSITIVE"]}

Compounds == {-100, -50, -5, -4, -3, 0, 3, 4, 5, 50, 100}

LexiconInputs ==
    [text : [is_str : BOOLEAN, empty : BOOLEAN],
     polarity : {[raises |-> TRUE, compound |-> 0]}
                    \cup [raises : {FALSE}, compound : Compounds]]

\* sentiment_bert.py line 55: batch_size
default_batch_size == 32

\* a full batch of identical empty texts, and what the classifier answers: the
\* same result for each of them
EmptyBatch == [k \in 1..default_batch_size |-> <<>>]

SentimentCalls ==
    [fn : {"compute_final_sentiment", "hf_to_sentiment_columns"}, df : Tables]
        \cup [fn : {"get_sentiment_score_batch"},
              results : SeqsUpTo(RawResults, MaxResults) \ {<<>>}]
        \cup [fn : {"get_sentiment_score_batch"},
              texts : {EmptyBatch},
              results : {[k \in 1..default_batch_size |-> r] : r \in RawResults}]
        \cup [fn : {"get_sentiment_score"}, arg : LexiconInputs]

\* the batch run is not part of the specifications of single calls
NoBatch ==
    /\ n = 0 /\ batch_size = 1 /\ max_workers = 1 /\ submitted = 0
    /\ fstate = <<>> /\ foutcome = <<>> /\ interleaved = FALSE /\ results = <<>>
    /\ warnings = 0
    /\ df = [assigned |-> FALSE, sentiment_label |-> <<>>, sentiment_score |-> <<>>]
    /\ pc = "idle"

InitSentiment ==
    /\ call \in SentimentCalls
    /\ ret = Pending
    /\ NoBatch
    /\ NoScrape
    /\ NoScraperPipeline

CallComputeFinal ==
    /\ call.fn = "compute_final_sentiment" /\ ~ret.done
    /\ ret' = compute_final_sentiment(call.df)
    /\ UNCHANGED <<call, batchVars, scrape, scraper_pipeline>>

CallHfToColumns ==
    /\ call.fn = "hf_to_sentiment_columns" /\ ~ret.done
    /\ ret' = hf_to_sentiment_columns(call.df)
    /\ UNCHANGED <<call, batchVars, scrape, scraper_pipeline>>

\* lines 42-48 of sentiment_bert.py on what the classifier returned
CallModelEngine ==
    /\ call.fn = "get_sentiment_score_batch" /\ ~ret.done
    /\ ret' = Returned(SignAll(call.results))
    /\ UNCHANGED <<call, batchVars, scrape, scraper_pipeline>>

CallLexiconEngine ==
    /\ call.fn = "get_sentiment_score" /\ ~ret.done
    /\ ret' = Returned(get_sentiment_score(call.arg.text, call.arg.polarity))
    /\ UNCHANGED <<call, batchVars, scrape, scraper_pipeline>>

NextSentiment ==
    \/ CallComputeFinal
    \/ CallHfToColumns
    \/ CallModelEngine
    \/ CallLexiconEngine

SpecSentiment == InitSentiment /\ [][NextSentiment]_vars

\* ------------------------------------------------------------ strings as sequences of characters
UpperLetters == <<"A", "B", "C", "D", "E", "F", "G", "H", "I", "J", "K", "L", "M", "N", "O", "P", "Q", "R", "S", "T", "U", "V", "W", "X", "Y", "Z">>

LowerLetters == <<"a", "b", "c", "d", "e", "f", "g", "h", "i", "j", "k", "l", "m", "n", "o", "p", "q", "r", "s", "t", "u", "v", "w", "x", "y", "z">>

Digits == {"0", "1", "2", "3", "4", "5", "6", "7", "8", "9"}

UpperSet == {UpperLetters[i] : i \in 1..26}

LowerSet == {LowerLetters[i] : i \in 1..26}

\* str.lower() on one character
LowerChar(c) ==
    IF c \in UpperSet
    THEN LowerLetters[CHOOSE i \in 1..26 : UpperLetters[i] = c]
    ELSE c

\* str.lower()
str_lower(s) == [i \in 1..Len(s) |-> LowerChar(s[i])]

\* \s of a regular expression, and the separators of str.split() and str.strip()
IsSpace(c) == c \in {" ", "\t", "\n", "\r"}

\* \w of a regular expression
IsWordChar(c) == c \in UpperSet \/ c \in LowerSet \/ c \in Digits \/ c = "_"

\* the literal lit occurs in s at position i, compared as re.IGNORECASE compares
MatchesAt(s, i, lit) ==
    /\ i + Len(lit) - 1 <= Len(s)
    /\ \A k \in 1..Len(lit) : LowerChar(s[i + k - 1]) = LowerChar(lit[k])

\* the last position of the run of characters in class C(_) that starts at i
RECURSIVE NonSpaceRunEnd(_, _)
NonSpaceRunEnd(s, i) ==
    IF i <= Len(s) /\ ~IsSpace(s[i]) THEN NonSpaceRunEnd(s, i + 1) ELSE i - 1

RECURSIVE CtlRunEnd(_, _)
CtlRunEnd(s, i) ==
    IF i <= Len(s) /\ s[i] \in {"\r", "\n", "\t"} THEN CtlRunEnd(s, i + 1) ELSE i - 1

\* re.sub(r"http\S+", " ", s) from position i on
RECURSIVE sub_url(_, _)
sub_url(s, i) ==
    IF i > Len(s) THEN <<>>
    ELSE IF /\ i + 4 <= Len(s)
            /\ SubSeq(s, i, i + 3) = <<"h", "t", "t", "p">>
            /\ ~IsSpace(s[i + 4])
         THEN <<" ">> \o sub_url(s, NonSpaceRunEnd(s, i + 4) + 1)
         ELSE <<s[i]>> \o sub_url(s, i + 1)

\* re.sub(r"[\r\n\t]+", " ", s) from position i on
RECURSIVE sub_ctl(_, _)
sub_ctl(s, i) ==
    IF i > Len(s) THEN <<>>
    ELSE IF s[i] \in {"\r", "\n", "\t"}
         THEN <<" ">> \o sub_ctl(s, CtlRunEnd(s, i) + 1)
         ELSE <<s[i]>> \o sub_ctl(s, i + 1)

\* re.sub(r"[^a-z0-9\s]", " ", s)
sub_special(s) ==
    [i \in 1..Len(s) |->
        IF s[i] \in LowerSet \/ s[i] \in Digits \/ IsSpace(s[i]) THEN s[i] ELSE " "]

\* str.split(): the maximal runs of characters that are no whitespace
RECURSIVE split_from(_, _, _)
split_from(s, i, cur) ==
    IF i > Len(s) THEN (IF cur = <<>> THEN <<>> ELSE <<cur>>)
    ELSE IF IsSpace(s[i])
         THEN (IF cur = <<>> THEN <<>> ELSE <<cur>>) \o split_from(s, i + 1, <<>>)
         ELSE split_from(s, i + 1, Append(cur, s[i]))

str_split(s) == split_from(s, 1, <<>>)

\* sep.join(words)
RECURSIVE str_join(_, _)
str_join(sep, words) ==
    IF Len(words) = 0 THEN <<>>
    ELSE IF Len(words) = 1 THEN words[1]
    ELSE words[1] \o sep \o str_join(sep, Tail(words))

\* str.strip()
RECURSIVE str_strip(_)
str_strip(s) ==
    IF Len(s) = 0 THEN s
    ELSE IF IsSpace(s[1]) THEN str_strip(Tail(s))
    ELSE IF IsSpace(s[Len(s)]) THEN str_strip(SubSeq(s, 1, Len(s) - 1))
    ELSE s

\* a value that may be None (or NaN) instead of a string
PyNone == [is_str |-> FALSE, s |-> <<>>]

Str(s) == [is_str |-> TRUE, s |-> s]

\* ------------------------------------------------------------ themes.py: the optional NLTK parts
\* lines 45-46: the stopwords used when the NLTK corpus cannot be loaded
FallbackStop == {<<"t", "h", "e">>, <<"a", "n", "d">>, <<"a">>, <<"a", "n">>, <<"i", "s">>, <<"i", "t">>, <<"t", "h", "i", "s">>, <<"t", "h", "a", "t">>, <<"t", "o">>, <<"f", "o", "r">>, <<"i", "n">>, <<"o", "n">>, <<"o", "f">>, <<"w", "i", "t", "h">>, <<"a", "t">>, <<"a", "s">>}

\* lines 42-43: the NLTK English stopwords (the words of it that matter here)
NltkStop == FallbackStop \cup {<<"h", "a", "s">>, <<"w", "a", "s">>, <<"a", "r", "e">>, <<"b", "u", "t">>}

\* env.nltk_stop: the stopwords corpus is installed; env.lemmatizer: WordNet is
STOP(env) == IF env.nltk_stop THEN NltkStop ELSE FallbackStop

Envs == [lemmatizer : BOOLEAN, nltk_stop : BOOLEAN]

\* WordNetLemmatizer().lemmatize(w): the shortest WordNet noun form of w, or w
lemmatize(w) ==
    CASE w = <<"c", "r", "a", "s", "h", "e", "s">> -> <<"c", "r", "a", "s", "h">>
      [] w = <<"t", "r", "a", "n", "s", "f", "e", "r", "s">> -> <<"t", "r", "a", "n", "s", "f", "e", "r">>
      [] w = <<"h", "a", "s">> -> <<"h", "a">>
      [] OTHER -> w

\* a plausible bug: the text is not lower-cased before the characters are filtered
preprocess_text_nolower(x, env) ==
    IF ~x.is_str THEN <<>>
    ELSE LET s2 == sub_ctl(sub_url(x.s, 1), 1)
             s3 == sub_special(s2)
             keep(w) == w \notin STOP(env) /\ Len(w) > 2
             tokens == SelectSeq(str_split(s3), keep)
         IN  str_join(<<" ">>, tokens)

\* preprocess_text (lines 73-82)
preprocess_text(x, env) ==
    IF ~x.is_str THEN <<>>
    ELSE LET s0 == str_lower(x.s)
             s1 == sub_url(s0, 1)
             s2 == sub_ctl(s1, 1)
             s3 == sub_special(s2)
             keep(w) == w \notin STOP(env) /\ Len(w) > 2
             tokens == SelectSeq(str_split(s3), keep)
             lemmas == IF env.lemmatizer
                       THEN [k \in 1..Len(tokens) |-> lemmatize(tokens[k])]
                       ELSE tokens
         IN  str_join(<<" ">>, lemmas)

\* ------------------------------------------------------------ themes.py: rules
\* \b at the gap before position p of s: exactly one side is a word character
WordAt(s, p) == p >= 1 /\ p <= Len(s) /\ IsWordChar(s[p])

Boundary(s, p) == WordAt(s, p - 1) # WordAt(s, p)

\* re.compile(rf"\b{re.escape(kw)}\b", flags=re.I).search(s)
pat_search(kw, s) ==
    \E i \in 1..Len(s) :
        /\ MatchesAt(s, i, kw)
        /\ Boundary(s, i)
        /\ Boundary(s, i + Len(kw))

\* lines 100-110: the patterns of one theme: the stripped phrases that are not empty
theme_patterns(kws) ==
    LET stripped == [k \in 1..Len(kws) |-> str_strip(kws[k])]
        nonempty(kw) == kw # <<>>
    IN  SelectSeq(stripped, nonempty)

\* compile_keyword_patterns: theme_map is the dict as the sequence of its items
compile_keyword_patterns(theme_map) ==
    [k \in 1..Len(theme_map) |->
        [theme |-> theme_map[k].theme, patterns |-> theme_patterns(theme_map[k].kws)]]

\* a plausible bug: no break after the first pattern that matches
RECURSIVE rule_assign_themes_nobreak(_, _)
rule_assign_themes_nobreak(text, compiled_map) ==
    IF ~text.is_str \/ text.s = <<>> \/ Len(compiled_map) = 0 THEN <<>>
    ELSE LET item == compiled_map[1]
             hit(pat) == pat_search(pat, text.s)
         IN  [k \in 1..Len(SelectSeq(item.patterns, hit)) |-> item.theme]
                 \o rule_assign_themes_nobreak(text, Tail(compiled_map))

\* rule_assign_themes (lines 128-136)
RECURSIVE rule_assign_themes(_, _)
rule_assign_themes(text, compiled_map) ==
    IF ~text.is_str \/ text.s = <<>> \/ Len(compiled_map) = 0 THEN <<>>
    ELSE LET item == compiled_map[1]
             hit == \E k \in 1..Len(item.patterns) : pat_search(item.patterns[k], text.s)
         IN  (IF hit THEN <<item.theme>> ELSE <<>>)
                 \o rule_assign_themes(text, Tail(compiled_map))

NoTheme == "<None>"

\* main, lines 183 and 235-246: one review through normalization and assignment
theme_row(review, theme_map, env) ==
    LET txt_clean == preprocess_text(review, env)
        matched == rule_assign_themes(Str(txt_clean), compile_keyword_patterns(theme_map))
    IN  [txt_clean |-> txt_clean,
         all_themes |-> matched,
         theme_primary |-> IF Len(matched) > 0 THEN matched[1] ELSE NoTheme,
         theme_secondary |-> IF Len(matched) > 1 THEN matched[2] ELSE NoTheme]

\* ------------------------------------------------------------ calls of the text functions
\* every concatenation of at most k pieces
RECURSIVE Concats(_, _)
Concats(P, k) ==
    IF k = 0 THEN {<<>>}
    ELSE LET prev == Concats(P, k - 1)
         IN  prev \cup {t \o p : t \in prev, p \in P}

ExampleRules ==
    <<[theme |-> "Stability", kws |-> <<<<"c", "r", "a", "s", "h">>>>],
      [theme |-> "Performance", kws |-> <<<<"f", "a", "s", "t">>>>]>>

OtherRules ==
    <<[theme |-> "Performance", kws |-> <<<<" ", "f", "a", "s", "t", " ">>, <<>>, <<"a", "p", "p">>>>],
      [theme |-> "Stability", kws |-> <<<<"c", "r", "a", "s", "h">>, <<"c", "r", "a", "s", "h", "e", "s">>, <<"a", "p", "p", " ", "c", "r", "a", "s", "h">>>>],
      [theme |-> "Support", kws |-> <<>>],
      [theme |-> "Blank", kws |-> <<<<" ">>>>]>>

RuleSets == {ExampleRules, OtherRules}

ThemePieces == {<<"a", "p", "p">>, <<"c", "r", "a", "s", "h">>, <<"c", "r", "a", "s", "h", "e", "s">>, <<"F", "a", "s", "t">>, <<" ">>, <<"_">>, <<",">>}

NormPieces == {<<"h", "t", "t", "p">>, <<"s">>, <<" ">>, <<"\n">>, <<"T", "h", "e">>, <<"h", "a", "s">>, <<"c", "r", "a", "s", "h", "e", "s">>, <<",">>, <<"x", "1">>}

Review1 == <<"A", "p", "p", " ", "c", "r", "a", "s", "h", "e", "s", " ", "o", "n", " ", "l", "o", "g", "i", "n">>

Review2 == <<"F", "a", "s", "t", " ", "t", "r", "a", "n", "s", "f", "e", "r", "s", ",", " ", "l", "o", "v", "e", " ", "i", "t">>

ThemeCalls ==
    [fn : {"rule_assign_themes"},
     text : {PyNone} \cup {Str(t) : t \in Concats(ThemePieces, MaxPieces)},
     rules : RuleSets]
        \cup [fn : {"preprocess_text"},
              s : {PyNone} \cup {Str(t) : t \in Concats(NormPieces, MaxPieces)},
              env : Envs]
        \cup [fn : {"theme_row"},
              review : {PyNone, Str(Review1), Str(Review2)},
              rules : RuleSets,
              env : Envs]

InitThemes ==
    /\ call \in ThemeCalls
    /\ ret = Pending
    /\ NoBatch
    /\ NoScrape
    /\ NoScraperPipeline

CallRuleAssign ==
    /\ call.fn = "rule_assign_themes" /\ ~ret.done
    /\ ret' = Returned(rule_assign_themes(call.text, compile_keyword_patterns(call.rules)))
    /\ UNCHANGED <<call, batchVars, scrape, scraper_pipeline>>

CallPreprocess ==
    /\ call.fn = "preprocess_text" /\ ~ret.done
    /\ ret' = Returned(preprocess_text(call.s, call.env))
    /\ UNCHANGED <<call, batchVars, scrape, scraper_pipeline>>

CallThemeRow ==
    /\ call.fn = "theme_row" /\ ~ret.done
    /\ ret' = Returned(theme_row(call.review, call.rules, call.env))
    /\ UNCHANGED <<call, batchVars, scrape, scraper_pipeline>>

NextThemes ==
    \/ CallRuleAssign
    \/ CallPreprocess
    \/ CallThemeRow

SpecThemes == InitThemes /\ [][NextThemes]_vars

\* ------------------------------------------------------------ keywords.py
\* " " in t
HasSpace(t) == \E i \in 1..Len(t) : t[i] = " "

\* line 116: the sort key (-(" " in t), len(t)), compared as tuples
KeyLeq(a, b) ==
    LET ka == IF HasSpace(a) THEN -1 ELSE 0
        kb == IF HasSpace(b) THEN -1 ELSE 0
    IN  ka < kb \/ (ka = kb /\ Len(a) <= Len(b))

\* sorted() is stable: x goes after every element whose key is not greater
InsertByKey(s, x) ==
    LET pos == Cardinality({k \in 1..Len(s) : KeyLeq(s[k], x)})
    IN  SubSeq(s, 1, pos) \o <<x>> \o SubSeq(s, pos + 1, Len(s))

\* line 116: candidates = sorted(global_tfidf, key=...)
RECURSIVE sorted_candidates(_)
sorted_candidates(c) ==
    IF Len(c) = 0 THEN <<>>
    ELSE InsertByKey(sorted_candidates(SubSeq(c, 1, Len(c) - 1)), c[Len(c)])

\* lines 134-139: the scan over the candidate patterns from the k-th on
RECURSIVE scan_candidates(_, _, _, _, _)
scan_candidates(cands, k, text_proc, top_k, found) ==
    IF k > Len(cands) THEN found
    ELSE LET found2 == IF pat_search(cands[k], text_proc)
                       THEN Append(found, cands[k]) ELSE found
         IN  IF Len(found2) >= top_k THEN found2
             ELSE scan_candidates(cands, k + 1, text_proc, top_k, found2)

separator == <<"|">>

\* _find_keywords (lines 124-140) with the candidates of line 116
find_keywords(text, global_tfidf, top_k, lemmatizer) ==
    IF str_strip(text) = <<>> THEN <<>>
    ELSE LET words == str_split(str_lower(text))
             text_proc == IF lemmatizer
                          THEN str_join(<<" ">>, [k \in 1..Len(words) |-> lemmatize(words[k])])
                          ELSE str_lower(text)
         IN  str_join(separator,
                      scan_candidates(sorted_candidates(global_tfidf), 1, text_proc, top_k, <<>>))

\* attach_top_keywords_to_df on one row: the keywords field of the row.
\* global_tfidf None gives "", and a missing text is "" after fillna("")
attach_top_keywords_to_df(text, global_tfidf, top_k, lemmatizer) ==
    IF global_tfidf.is_none THEN <<>>
    ELSE find_keywords(IF text.is_str THEN text.s ELSE <<>>, global_tfidf.terms, top_k,
                       lemmatizer)

\* the keywords of a keywords field
keywords_of(field) == IF field = <<>> THEN <<>> ELSE
    LET cuts == <<0>> \o SelectSeq([i \in 1..Len(field) |-> IF field[i] = "|" THEN i ELSE 0],
                                   LAMBDA i : i > 0) \o <<Len(field) + 1>>
    IN  [k \in 1..(Len(cuts) - 1) |-> SubSeq(field, cuts[k] + 1, cuts[k + 1] - 1)]

\* ------------------------------------------------------------ calls of attach_top_keywords_to_df
Terms == {<<"a", "p", "p">>, <<"c", "r", "a", "s", "h">>, <<"a", "p", "p", " ", "c", "r", "a", "s", "h">>, <<"f", "a", "s", "t">>}

RowTexts == {PyNone} \cup {Str(t) : t \in {<<>>, <<" ">>, <<"A", "p", "p", " ", "c", "r", "a", "s", "h">>, <<"a", "p", "p", " ", "c", "r", "a", "s", "h", "e", "s", " ", "F", "A", "S", "T">>, <<"f", "a", "s", "t", " ", "a", "p", "p">>}}

KeywordCalls ==
    [fn : {"attach_top_keywords_to_df"},
     text : RowTexts,
     global_tfidf : {[is_none |-> TRUE, terms |-> <<>>]}
                        \cup [is_none : {FALSE}, terms : SeqsUpTo(Terms, MaxCandidates)],
     top_k : 0..MaxTopK,
     lemmatizer : BOOLEAN]

InitKeywords ==
    /\ call \in KeywordCalls
    /\ ret = Pending
    /\ NoBatch
    /\ NoScrape
    /\ NoScraperPipeline

CallAttachKeywords ==
    /\ call.fn = "attach_top_keywords_to_df" /\ ~ret.done
    /\ ret' = Returned(attach_top_keywords_to_df(call.text, call.global_tfidf, call.top_k,
                                                 call.lemmatizer))
    /\ UNCHANGED <<call, batchVars, scrape, scraper_pipeline>>

NextKeywords == CallAttachKeywords

SpecKeywords == InitKeywords /\ [][NextKeywords]_vars

\* ------------------------------------------------------------ keywords.py: TF-IDF terms per group
\* TfidfVectorizer's analyzer: lower-case, then the runs of two or more word
\* characters (token_pattern (?u)\b\w\w+\b)
tokenize(doc) ==
    LET low == str_lower(doc)
        spaced == [i \in 1..Len(low) |-> IF IsWordChar(low[i]) THEN low[i] ELSE " "]
    IN  SelectSeq(str_split(spaced), LAMBDA w : Len(w) >= 2)

\* ngram_range=(1, 2): the words of a document and its pairs of adjacent words
ngrams(doc) ==
    LET t == tokenize(doc)
    IN  {t[i] : i \in 1..Len(t)}
            \cup {t[i] \o <<" ">> \o t[i + 1] : i \in 1..(Len(t) - 1)}

\* line 42: min_df
min_df == 2

\* line 94: top_k, as run_pipeline leaves it
default_top_k == 5

\* lines 68-76: vect.fit_transform(docs) keeps the terms found in at least min_df
\* documents (in at least one when the group has fewer than min_df documents) and
\* raises ValueError when no term is left.  max_features=5000 is never reached.
fit_transform(docs) ==
    LET min_df_here == IF Len(docs) >= min_df THEN min_df ELSE 1
        grams == [i \in 1..Len(docs) |-> ngrams(docs[i])]
        all == UNION {grams[i] : i \in 1..Len(docs)}
        vocab == {t \in all :
                     Cardinality({i \in 1..Len(docs) : t \in grams[i]}) >= min_df_here}
    IN  [raised |-> vocab = {}, features |-> vocab]

\* lines 82-85: features[mean_tfidf.argsort()[::-1][:top_n]].  The order is the
\* one of the mean TF-IDF weights, floating-point numbers computed by the
\* library: any order of the features can come out.
top_terms_all(features, top_n) ==
    {s \in [1..Cardinality(features) -> features] :
        \A i \in DOMAIN s : \A j \in DOMAIN s : i # j => s[i] # s[j]}

top_terms(features, top_n) ==
    {s \in [1..Min(top_n, Cardinality(features)) -> features] :
        \A i \in DOMAIN s : \A j \in DOMAIN s : i # j => s[i] # s[j]}

\* lines 62-85: the lists one group can get
group_terms(docs, top_n) ==
    LET fit == fit_transform(docs)
    IN  IF fit.raised THEN {<<>>} ELSE top_terms(fit.features, top_n)

\* line 61: df.groupby(group_col) visits the groups in the order of their keys
Banks == <<"A", "B">>

group_keys(rows) == {rows[i].bank : i \in 1..Len(rows)}

\* line 62: gdf[text_col].fillna("").astype(str).tolist()
group_docs(rows, g) ==
    LET gdf == SelectSeq(rows, LAMBDA r : r.bank = g)
    IN  [i \in 1..Len(gdf) |-> IF gdf[i].txt.is_str THEN gdf[i].txt.s ELSE <<>>]

\* extract_tfidf_keywords_per_group: the dicts it can return
extract_tfidf_keywords_per_group(rows, top_n) ==
    LET keys == group_keys(rows)
        lists(g) == IF g \in keys THEN group_terms(group_docs(rows, g), top_n) ELSE {<<>>}
    IN  {[g \in keys |-> IF g = Banks[1] THEN l1 ELSE l2] :
            l1 \in lists(Banks[1]), l2 \in lists(Banks[2])}

\* run_theme_extraction.py line 76: sum(top_keywords_dict.values(), [])
RECURSIVE sum_values(_, _)
sum_values(d, k) ==
    IF k > Len(Banks) THEN <<>>
    ELSE (IF Banks[k] \in DOMAIN d THEN d[Banks[k]] ELSE <<>>) \o sum_values(d, k + 1)

\* run_pipeline lines 69-81 given the terms of the groups: the keywords column
run_pipeline(rows, top_keywords_dict, lemmatizer) ==
    LET global_tfidf == [is_none |-> FALSE, terms |-> sum_values(top_keywords_dict, 1)]
    IN  [i \in 1..Len(rows) |->
            attach_top_keywords_to_df(rows[i].txt, global_tfidf, default_top_k, lemmatizer)]

\* ------------------------------------------------------------ calls of the keyword pipeline
DocTexts == {Str(t) : t \in {<<"f", "a", "s", "t", " ", "a", "p", "p">>, <<"f", "a", "s", "t", " ", "c", "r", "a", "s", "h">>}}

PipelineCalls ==
    [fn : {"extract_tfidf_keywords_per_group"},
     rows : SeqsUpTo([bank : {"A", "B"}, txt : DocTexts \cup {PyNone}], MaxDocs),
     top_n : {0, 1, MaxDocs}]
    \cup [fn : {"run_pipeline"},
          rows : SeqsUpTo([bank : {"A", "B"}, txt : DocTexts \cup {Str(<<>>)}], MaxDocs),
          top_n : {MaxDocs},
          lemmatizer : BOOLEAN]

InitPipeline ==
    /\ call \in PipelineCalls
    /\ ret = Pending
    /\ NoBatch
    /\ NoScrape
    /\ NoScraperPipeline

CallExtractTfidf ==
    /\ call.fn = "extract_tfidf_keywords_per_group" /\ ~ret.done
    /\ \E d \in extract_tfidf_keywords_per_group(call.rows, call.top_n) : ret' = Returned(d)
    /\ UNCHANGED <<call, batchVars, scrape, scraper_pipeline>>

CallRunPipeline ==
    /\ call.fn = "run_pipeline" /\ ~ret.done
    /\ \E d \in extract_tfidf_keywords_per_group(call.rows, call.top_n) :
          ret' = Returned([top_keywords_dict |-> d,
                           keywords |-> run_pipeline(call.rows, d, call.lemmatizer)])
    /\ UNCHANGED <<call, batchVars, scrape, scraper_pipeline>>

NextPipeline == CallExtractTfidf \/ CallRunPipeline

SpecPipeline == InitPipeline /\ [][NextPipeline]_vars

\* ------------------------------------------------------------ generate_report.py, insight.py: aggregation
\* the theme keys in the order groupby visits them (sorted)
ThemeKeys == <<<<>>, <<"P">>, <<"P", "|", "S">>, <<"S">>>>

\* the sum of a list of numeric score cells
RECURSIVE sum_scores(_)
sum_scores(g) == IF Len(g) = 0 THEN 0 ELSE g[1].sentiment_score.v + sum_scores(Tail(g))

\* agg "mean": NaN cells are skipped, in the sum and in the divisor
mean(g) ==
    LET vals == SelectSeq(g, LAMBDA r : r.sentiment_score.kind = "num")
    IN  [n |-> Len(vals), sum |-> sum_scores(vals)]

\* line 36: sort_values(["bank", "count"], ascending=[True, False]) inside one
\* bank: by count, largest first, equal counts in the order they had
RECURSIVE sort_by_count(_)
sort_by_count(s) ==
    IF Len(s) = 0 THEN <<>>
    ELSE LET rest == sort_by_count(SubSeq(s, 1, Len(s) - 1))
             x == s[Len(s)]
             pos == Cardinality({k \in 1..Len(rest) : rest[k].count >= x.count})
         IN  SubSeq(rest, 1, pos) \o <<x>> \o SubSeq(rest, pos + 1, Len(rest))

\* _agg_theme_stats: one row per (bank, theme_primary) with count, avg_sentiment,
\* bank_total and pct = 100.0 * count / bank_total (kept as a fraction).  Rows
\* whose theme_primary is null belong to no group but count in bank_total.
RECURSIVE agg_theme_stats(_, _)
agg_theme_stats(rows, b) ==
    IF b > Len(Banks) THEN <<>>
    ELSE LET bank == Banks[b]
             bank_total == Len(SelectSeq(rows, LAMBDA r : r.bank = bank))
             group(t) == SelectSeq(rows, LAMBDA r : r.bank = bank /\ r.theme_primary = Str(t))
             keys == SelectSeq(ThemeKeys, LAMBDA t : Len(group(t)) > 0)
             agg == [k \in 1..Len(keys) |->
                        LET count == Len(SelectSeq(group(keys[k]), LAMBDA r : r.review))
                        IN  [bank |-> bank, theme_primary |-> keys[k], count |-> count,
                             avg_sentiment |-> mean(group(keys[k])),
                             bank_total |-> bank_total,
                             pct |-> [num |-> 100 * count, den |-> bank_total]]]
         IN  sort_by_count(agg) \o agg_theme_stats(rows, b + 1)

\* generate_report_md lines 160-163: the score column coerced to numbers, nulls
\* and text replaced by 0.0, then aggregated
generate_report_md(rows) ==
    agg_theme_stats([i \in 1..Len(rows) |->
                        [rows[i] EXCEPT !.sentiment_score = NumCell(ToNumeric(@))]], 1)

\* str.split("|")
split_pipe(s) == IF s = <<>> THEN <<<<>>>> ELSE keywords_of(s)

\* lines 121-122: the theme values of one bank's rows, split and exploded
RECURSIVE explode(_, _)
explode(rows, bank) ==
    IF Len(rows) = 0 THEN <<>>
    ELSE (IF rows[1].bank = bank
          THEN split_pipe(IF rows[1].theme.is_str THEN rows[1].theme.s ELSE <<>>)
          ELSE <<>>) \o explode(Tail(rows), bank)

\* theme_share_plot lines 119-130: per bank the counts of the pipe-separated
\* theme values, the empty value dropped, and pct = 100.0 * cnts / cnts.sum()
\* (kept as a fraction).  The table is the set of its rows; a bank without any
\* theme has no row.
theme_share_plot(rows) ==
    LET vals(bank) == SelectSeq(explode(rows, bank), LAMBDA t : t # <<>>)
        cnts(bank, t) == Len(SelectSeq(vals(bank), LAMBDA u : u = t))
    IN  UNION {{[bank |-> bank, theme |-> t, count |-> cnts(bank, t),
                 pct |-> [num |-> 100 * cnts(bank, t), den |-> Len(vals(bank))]] :
                    t \in {vals(bank)[k] : k \in 1..Len(vals(bank))}} :
               bank \in {rows[i].bank : i \in 1..Len(rows)}}

\* line 16: DEFAULT_MIN_COUNT
DEFAULT_MIN_COUNT == 3

\* the order of sort_values(["avg_sentiment", "count"], ascending=[ascending, False]):
\* a comes strictly before b
precedes(a, b, ascending) ==
    LET l == a.avg_sentiment.sum * b.avg_sentiment.n
        r == b.avg_sentiment.sum * a.avg_sentiment.n
    IN  (IF ascending THEN l < r ELSE l > r) \/ (l = r /\ a.count > b.count)

\* lines 115, 117: the stable sort of the bank's aggregate rows
RECURSIVE sort_by_sentiment(_, _)
sort_by_sentiment(s, ascending) ==
    IF Len(s) = 0 THEN <<>>
    ELSE LET rest == sort_by_sentiment(SubSeq(s, 1, Len(s) - 1), ascending)
             x == s[Len(s)]
             pos == Cardinality({k \in 1..Len(rest) : ~precedes(x, rest[k], ascending)})
         IN  SubSeq(rest, 1, pos) \o <<x>> \o SubSeq(rest, pos + 1, Len(rest))

\* generate_bank_section lines 105-142: the themes listed as drivers and as pain
\* points, the first three of head(6) of each order
generate_bank_section(agg, bank, min_count) ==
    LET bank_agg == SelectSeq(agg, LAMBDA r : r.bank = bank /\ r.count >= min_count)
        drivers_df == sort_by_sentiment(bank_agg, FALSE)
        pains_df == sort_by_sentiment(bank_agg, TRUE)
    IN  [bank |-> bank,
         drivers |-> SubSeq(drivers_df, 1, Min(3, Len(drivers_df))),
         pains |-> SubSeq(pains_df, 1, Min(3, Len(pains_df)))]

\* ------------------------------------------------------------ calls of the aggregators
ReportRows ==
    [bank : {"A", "B"}, theme_primary : {PyNone, Str(<<"P">>), Str(<<"S">>)},
     review : BOOLEAN, sentiment_score : {NaNCell, TextCell, NumCell(100), NumCell(-50)}]

\* _agg_theme_stats is given a numeric score column
NumericRows == {r \in ReportRows : r.sentiment_score # TextCell}

\* generate_report_md gives generate_bank_section the aggregate of its rows
ThemedRows ==
    {r \in ReportRows : r.theme_primary # PyNone /\ r.sentiment_score \in {NumCell(100), NumCell(-50)}}

ShareRows ==
    [bank : {"A", "B"},
     theme : {PyNone, Str(<<>>), Str(<<"P">>), Str(<<"S">>), Str(<<"P", "|", "S">>)}]

AggregateCalls ==
    [fn : {"_agg_theme_stats"}, rows : SeqsUpTo(NumericRows, MaxAggRows)]
        \cup [fn : {"generate_report_md"}, rows : SeqsUpTo(ReportRows, MaxAggRows)]
        \cup [fn : {"theme_share_plot"}, rows : SeqsUpTo(ShareRows, MaxAggRows)]
        \cup [fn : {"generate_bank_section"}, rows : SeqsUpTo(ThemedRows, MaxAggRows),
              bank : {"A", "B"}, min_count : (1..MaxAggRows) \cup {DEFAULT_MIN_COUNT}]

InitAggregate ==
    /\ call \in AggregateCalls
    /\ ret = Pending
    /\ NoBatch
    /\ NoScrape
    /\ NoScraperPipeline

CallAggThemeStats ==
    /\ call.fn = "_agg_theme_stats" /\ ~ret.done
    /\ ret' = Returned(agg_theme_stats(call.rows, 1))
    /\ UNCHANGED <<call, batchVars, scrape, scraper_pipeline>>

CallGenerateReport ==
    /\ call.fn = "generate_report_md" /\ ~ret.done
    /\ ret' = Returned(generate_report_md(call.rows))
    /\ UNCHANGED <<call, batchVars, scrape, scraper_pipeline>>

CallThemeSharePlot ==
    /\ call.fn = "theme_share_plot" /\ ~ret.done
    /\ ret' = Returned(theme_share_plot(call.rows))
    /\ UNCHANGED <<call, batchVars, scrape, scraper_pipeline>>

\* generate_report_md lines 164-169: agg = _agg_theme_stats(df), then the section
\* of a bank
CallGenerateBankSection ==
    /\ call.fn = "generate_bank_section" /\ ~ret.done
    /\ ret' = Returned(generate_bank_section(generate_report_md(call.rows), call.bank,
                                             call.min_count))
    /\ UNCHANGED <<call, batchVars, scrape, scraper_pipeline>>

NextAggregate ==
    \/ CallAggThemeStats
    \/ CallGenerateReport
    \/ CallThemeSharePlot
    \/ CallGenerateBankSection

SpecAggregate == InitAggregate /\ [][NextAggregate]_vars

\* ------------------------------------------------------------ google_play_scraper.py
\* line 51: app_id_to_bank.get(app_id, "Unknown Bank")
bank_name == IF call.app_mapped THEN "Bank" ELSE "Unknown Bank"

\* lines 91-101: the standardized record of the j-th review of the k-th page
standardized_review(k, j) ==
    [review_id |-> <<call.app_id, k, j>>, bank |-> bank_name, app_id |-> call.app_id]

\* a plausible bug: the reviews still missing are not taken into account
count_needed_uncapped(all_reviews) == call.batch_size

\* line 70: count_needed
count_needed(all_reviews) == Min(call.batch_size, call.max_reviews - Len(all_reviews))

\* what reviews(...) can do with a request for count reviews: raise, or return a
\* page of at most count reviews with a continuation token or with None
SourceOutcomes(count) ==
    {[raised |-> TRUE, len |-> 0, has_token |-> FALSE]}
        \cup [raised : {FALSE}, len : 0..Max(count, 0), has_token : BOOLEAN]

\* lines 55-56: the state before the loop
InitScrape ==
    /\ call \in [fn : {"scrape_app_reviews"}, app_id : {1}, app_mapped : BOOLEAN,
                 max_reviews : 0..MaxReviews, batch_size : 1..MaxScrapeBatch]
    /\ ret = Pending
    /\ NoBatch
    /\ NoScraperPipeline
    /\ scrape = [pc |-> "loop", all_reviews |-> <<>>, continuation_token |-> NoToken,
                 requests |-> <<>>]

\* a plausible bug: an empty page that comes with a token does not end the loop
loop_continues_on_empty(o) == o.has_token

\* lines 86-88, 107-110: the loop goes on after a page unless the page is empty
\* or came without a continuation token
loop_continues(o) == o.len # 0 /\ o.has_token

\* a plausible bug: the reviews of the earlier pages are dropped on an error
on_request_error_drop(s, request) ==
    [s EXCEPT !.requests = Append(@, request), !.pc = "done", !.all_reviews = <<>>]

\* lines 112-115: the except handler logs the error and leaves the loop
on_request_error(s, request) ==
    [s EXCEPT !.requests = Append(@, request), !.pc = "done"]

\* lines 68-115: one iteration of the while loop, for one answer of the source
LoopIteration(o) ==
    /\ scrape.pc = "loop"
    /\ Len(scrape.all_reviews) < call.max_reviews
    /\ LET count == count_needed(scrape.all_reviews)
           k == Len(scrape.requests) + 1
           token == IF o.has_token THEN Token(k) ELSE NoToken
           request == [count |-> count, cont |-> scrape.continuation_token,
                       raised |-> o.raised, len |-> o.len, token |-> token]
           page == [j \in 1..o.len |-> standardized_review(k, j)]
       IN  IF count <= 0
           THEN scrape' = [scrape EXCEPT !.pc = "done"]
           ELSE /\ o \in SourceOutcomes(count)
                /\ scrape' =
                      IF o.raised
                      THEN on_request_error(scrape, request)
                      ELSE [pc |-> IF loop_continues(o) THEN "loop" ELSE "done",
                            all_reviews |-> scrape.all_reviews \o page,
                            continuation_token |-> token,
                            requests |-> Append(scrape.requests, request)]
    /\ UNCHANGED <<call, ret, batchVars, scraper_pipeline>>

\* line 68: the loop condition is false
LoopExit ==
    /\ scrape.pc = "loop"
    /\ Len(scrape.all_reviews) >= call.max_reviews
    /\ scrape' = [scrape EXCEPT !.pc = "done"]
    /\ UNCHANGED <<call, ret, batchVars, scraper_pipeline>>

\* line 119: return all_reviews
ReturnReviews ==
    /\ scrape.pc = "done"
    /\ ret' = Returned(scrape.all_reviews)
    /\ scrape' = [scrape EXCEPT !.pc = "returned"]
    /\ UNCHANGED <<call, batchVars, scraper_pipeline>>

NextScrape ==
    \/ \E o \in SourceOutcomes(MaxScrapeBatch) : LoopIteration(o)
    \/ LoopExit
    \/ ReturnReviews

SpecScrape == InitScrape /\ [][NextScrape]_vars

\* ------------------------------------------------------------ scripts/scrape_reviews.py
\* line 45: max_per_app
max_per_app(max_reviews, n_apps) == Max(1, max_reviews \div n_apps)

\* pd.DataFrame(list of dicts).columns
columns(rows) == UNION {DOMAIN rows[i] : i \in 1..Len(rows)}

\* a plausible bug: the last occurrence of a key is kept
drop_duplicates_last(rows, key) ==
    LET kept[i \in 0..Len(rows)] ==
            IF i = 0 THEN <<>>
            ELSE IF \E j \in (i + 1)..Len(rows) : rows[j][key] = rows[i][key]
                 THEN kept[i - 1]
                 ELSE Append(kept[i - 1], rows[i])
    IN  kept[Len(rows)]

\* df.drop_duplicates(subset=[key]), keep="first"
drop_duplicates(rows, key) ==
    LET kept[i \in 0..Len(rows)] ==
            IF i = 0 THEN <<>>
            ELSE IF \E j \in 1..(i - 1) : rows[j][key] = rows[i][key]
                 THEN kept[i - 1]
                 ELSE Append(kept[i - 1], rows[i])
    IN  kept[Len(rows)]

\* a plausible bug: no break after a call that returned
next_position_nobreak(p, raised) ==
    IF p.attempt < p.retries + 1
    THEN [app |-> p.app, attempt |-> p.attempt + 1]
    ELSE [app |-> p.app + 1, attempt |-> 1]

\* lines 49, 56, 82: where the two loops go after an attempt of app p.app
next_position(p, raised) ==
    IF raised /\ p.attempt < p.retries + 1
    THEN [app |-> p.app, attempt |-> p.attempt + 1]
    ELSE [app |-> p.app + 1, attempt |-> 1]

\* the loops at the position nxt
at_position(p, nxt) ==
    [p EXCEPT !.app = nxt.app, !.attempt = nxt.attempt,
              !.pc = IF nxt.app > p.n_apps THEN "after_loop" ELSE "attempt"]

NoTable == [is_none |-> TRUE, rows |-> <<>>]

Table(rows) == [is_none |-> FALSE, rows |-> rows]

\* lines 24-47: the configuration is loaded and holds app ids
InitScraperPipeline ==
    /\ \E n_apps \in 1..MaxApps, retries \in 0..MaxRetries, max_reviews \in 0..MaxReviews,
          scraper_batch \in {1, MaxScrapeBatch}, save_raw \in BOOLEAN :
          scraper_pipeline =
              [pc |-> "attempt", n_apps |-> n_apps, retries |-> retries,
               max_reviews |-> max_reviews, batch_size |-> scraper_batch,
               save_raw |-> save_raw, app |-> 1, attempt |-> 1, all_reviews |-> <<>>,
               last_exc |-> FALSE, calls |-> <<>>, failed |-> {},
               df |-> NoTable, raw_csv |-> NoTable]
    /\ call = [fn |-> "run_scraper_pipeline"]
    /\ ret = Pending
    /\ NoBatch
    /\ NoScrape

\* lines 58-64: scrape_app_reviews is called for the app of the current position
CallScrape ==
    /\ scraper_pipeline.pc = "attempt"
    /\ call' = [fn |-> "scrape_app_reviews", app_id |-> scraper_pipeline.app,
                app_mapped |-> (scraper_pipeline.app = 1),
                max_reviews |-> max_per_app(scraper_pipeline.max_reviews,
                                            scraper_pipeline.n_apps),
                batch_size |-> scraper_pipeline.batch_size]
    /\ ret' = Pending
    /\ scrape' = [pc |-> "loop", all_reviews |-> <<>>, continuation_token |-> NoToken,
                  requests |-> <<>>]
    /\ scraper_pipeline' =
          [scraper_pipeline EXCEPT
              !.pc = "in_call",
              !.last_exc = IF scraper_pipeline.attempt = 1 THEN FALSE ELSE @,
              !.calls = Append(@, [app |-> scraper_pipeline.app,
                                   attempt |-> scraper_pipeline.attempt,
                                   outcome |-> "pending", reviews |-> <<>>,
                                   request_error |-> FALSE])]
    /\ UNCHANGED batchVars

\* google_play_scraper.py lines 51-66, outside the try: the call raises before
\* its first request (sort_by.upper() on a configured value that is no string)
RaiseBeforeLoop ==
    /\ scraper_pipeline.pc = "in_call"
    /\ scrape.pc = "loop"
    /\ scrape.requests = <<>>
    /\ ret' = Raised
    /\ scrape' = [scrape EXCEPT !.pc = "raised"]
    /\ UNCHANGED <<call, batchVars, scraper_pipeline>>

\* lines 65-82: the call returned; its reviews are added and the attempts end
CallReturned ==
    /\ scraper_pipeline.pc = "in_call"
    /\ ret.done /\ ~ret.raised
    /\ LET reviews == ret.value
           logged == [scraper_pipeline EXCEPT
                         !.all_reviews = @ \o reviews,
                         !.last_exc = FALSE,
                         !.calls[Len(scraper_pipeline.calls)] =
                             [@ EXCEPT !.outcome = "returned", !.reviews = reviews,
                                       !.request_error =
                                           \E k \in 1..Len(scrape.requests) :
                                               scrape.requests[k].raised]]
       IN  scraper_pipeline' = at_position(logged, next_position(scraper_pipeline, FALSE))
    /\ UNCHANGED <<call, ret, batchVars, scrape>>

\* lines 83-91: the call raised; another attempt is made while attempts are left
CallRaised ==
    /\ scraper_pipeline.pc = "in_call"
    /\ ret.done /\ ret.raised
    /\ LET nxt == next_position(scraper_pipeline, TRUE)
           logged == [scraper_pipeline EXCEPT
                         !.last_exc = TRUE,
                         !.calls[Len(scraper_pipeline.calls)] =
                             [@ EXCEPT !.outcome = "raised"],
                         !.failed = IF nxt.app # scraper_pipeline.app
                                    THEN @ \cup {scraper_pipeline.app} ELSE @]
       IN  scraper_pipeline' = at_position(logged, nxt)
    /\ UNCHANGED <<call, ret, batchVars, scrape>>

\* lines 93-126: nothing collected returns None; otherwise the table is built,
\* deduplicated when it has a reviewId column, written when save_raw is set
\* (an IOError of to_csv is logged) and returned
SaveAndReturn(io_error) ==
    /\ scraper_pipeline.pc = "after_loop"
    /\ LET all_reviews == scraper_pipeline.all_reviews
           table == IF "reviewId" \in columns(all_reviews)
                    THEN drop_duplicates(all_reviews, "reviewId")
                    ELSE all_reviews
       IN  scraper_pipeline' =
               IF all_reviews = <<>>
               THEN [scraper_pipeline EXCEPT !.pc = "returned"]
               ELSE [scraper_pipeline EXCEPT
                        !.pc = "returned",
                        !.df = Table(table),
                        !.raw_csv = IF scraper_pipeline.save_raw /\ ~io_error
                                    THEN Table(table) ELSE NoTable]
    /\ UNCHANGED <<call, ret, batchVars, scrape>>

NextScraperPipeline ==
    \/ CallScrape
    \/ RaiseBeforeLoop
    \/ \E o \in SourceOutcomes(MaxScrapeBatch) : LoopIteration(o)
    \/ LoopExit
    \/ ReturnReviews
    \/ CallReturned
    \/ CallRaised
    \/ \E io_error \in BOOLEAN : SaveAndReturn(io_error)

SpecScraperPipeline == InitScraperPipeline /\ [][NextScraperPipeline]_vars

\* the scraper alone, as a sequential program that keeps running
SpecScrapeLive == SpecScrape /\ WF_vars(NextScrape)

\* ------------------------------------------------------------ text_utils.py, cleaner.py
\* the last position of the run of word characters that starts at i
RECURSIVE WordRunEnd(_, _)
WordRunEnd(s, i) ==
    IF i <= Len(s) /\ IsWordChar(s[i]) THEN WordRunEnd(s, i + 1) ELSE i - 1

\* text_utils.py line 23: where the match of
\* <[^<]+?>|https?://\S+|www\.\S+|@\w+|#\w+ that starts at i ends, 0 when none does
noise_end(s, i) ==
    LET tag == {j \in (i + 2)..Len(s) : s[j] = ">" /\ \A k \in (i + 1)..(j - 1) : s[k] # "<"}
        prefixed(lit) == /\ MatchesAt(s, i, lit)
                         /\ i + Len(lit) <= Len(s)
                         /\ ~IsSpace(s[i + Len(lit)])
    IN  IF s[i] = "<" /\ tag # {} THEN CHOOSE j \in tag : \A k \in tag : j <= k
        ELSE IF prefixed(<<"h", "t", "t", "p", ":", "/", "/">>) THEN NonSpaceRunEnd(s, i + 7)
        ELSE IF prefixed(<<"h", "t", "t", "p", "s", ":", "/", "/">>) THEN NonSpaceRunEnd(s, i + 8)
        ELSE IF prefixed(<<"w", "w", "w", ".">>) THEN NonSpaceRunEnd(s, i + 4)
        ELSE IF s[i] \in {"@", "#"} /\ i < Len(s) /\ IsWordChar(s[i + 1])
             THEN WordRunEnd(s, i + 1)
        ELSE 0

\* text_utils.py line 23: re.sub(pattern, '', text) from position i on
RECURSIVE sub_noise(_, _)
sub_noise(s, i) ==
    IF i > Len(s) THEN <<>>
    ELSE IF noise_end(s, i) > 0 THEN sub_noise(s, noise_end(s, i) + 1)
    ELSE <<s[i]>> \o sub_noise(s, i + 1)

\* clean_text: "" for NaN / None, otherwise lower-case, noise removed, runs of
\* whitespace made one space, stripped
clean_text(text) ==
    IF ~text.is_str THEN <<>>
    ELSE str_join(<<" ">>, str_split(sub_noise(str_lower(text.s), 1)))

\* a plausible bug: only empty texts are dropped
valid_text_nonempty(review) == Len(review) > 0

\* cleaner.py line 54: df["review"].str.len() > 2
valid_text(review) == Len(review) > 2

\* clean_reviews lines 42-65 on a table that has the columns review_id, review
\* and rating.  A row keeps its index label until reset_index; the field row is
\* the position the row had in the input.
clean_reviews(rows) ==
    IF Len(rows) = 0 THEN <<>>
    ELSE LET table == [i \in 1..Len(rows) |->
                       [index |-> i - 1, row |-> i, review_id |-> rows[i].review_id,
                        review |-> rows[i].review, rating |-> rows[i].rating]]
             deduped == drop_duplicates(table, "review_id")
             cleaned == [i \in 1..Len(deduped) |->
                            [deduped[i] EXCEPT !.review = clean_text(@)]]
             long == SelectSeq(cleaned, LAMBDA r : valid_text(r.review))
             numeric == [i \in 1..Len(long) |->
                            [long[i] EXCEPT !.rating = IF @.kind = "num" THEN @ ELSE NaNCell]]
             rated == SelectSeq(numeric, LAMBDA r : r.rating # NaNCell)
         IN  [i \in 1..Len(rated) |-> [rated[i] EXCEPT !.index = i - 1]]

\* ------------------------------------------------------------ calls of clean_reviews
ReviewTexts ==
    {PyNone,
     Str(<<"@", "b", "o", "b", " ", "H", "i">>),
     Str(<<" ", "G", "o", "o", "d", " ", "<", "b", ">", "a", "p", "p", "<", "/", "b", ">">>)}

RawRows == [review_id : {1, 2}, review : ReviewTexts, rating : {NumCell(5), NaNCell, TextCell}]

InitClean ==
    /\ call \in [fn : {"clean_reviews"}, rows : SeqsUpTo(RawRows, MaxCleanRows)]
    /\ ret = Pending
    /\ NoBatch
    /\ NoScrape
    /\ NoScraperPipeline

CallCleanReviews ==
    /\ call.fn = "clean_reviews" /\ ~ret.done
    /\ ret' = Returned(clean_reviews(call.rows))
    /\ UNCHANGED <<call, batchVars, scrape, scraper_pipeline>>

NextClean == CallCleanReviews

SpecClean == InitClean /\ [][NextClean]_vars

\* ------------------------------------------------------------ db/loader.py
\* a plausible bug: the chunk left when the items run out is not yielded
RECURSIVE chunked_iterable_drop_tail(_, _)
chunked_iterable_drop_tail(items, size) ==
    IF Len(items) < size \/ Len(items) = 0 THEN <<>>
    ELSE <<SubSeq(items, 1, Max(size, 1))>>
            \o chunked_iterable_drop_tail(SubSeq(items, Max(size, 1) + 1, Len(items)), size)

\* _chunked_iterable lines 22-29: the chunks yielded, in order
chunked_iterable(items, size) ==
    LET loop[i \in 0..Len(items)] ==
            IF i = 0 THEN [yielded |-> <<>>, chunk |-> <<>>]
            ELSE LET chunk == Append(loop[i - 1].chunk, items[i])
                 IN  IF Len(chunk) >= size
                     THEN [yielded |-> Append(loop[i - 1].yielded, chunk), chunk |-> <<>>]
                     ELSE [yielded |-> loop[i - 1].yielded, chunk |-> chunk]
        end == loop[Len(items)]
    IN  IF end.chunk # <<>> THEN Append(end.yielded, end.chunk) ELSE end.yielded

\* upsert_banks lines 67-83 on an empty banks table: a serial bank_id for every
\* bank of the table, in the order of first appearance
upsert_banks(df_rows) ==
    LET bank_rows == drop_duplicates(df_rows, "bank")
    IN  [b \in {bank_rows[i].bank : i \in 1..Len(bank_rows)} |->
            CHOOSE i \in 1..Len(bank_rows) : bank_rows[i].bank = b]

\* _prepare_review_row (the field row is the position of the row in the input)
prepare_review_row(r, i, bank_map) ==
    [review_id |-> r.review_id, bank_id |-> bank_map[r.bank], review_text |-> r.review,
     row |-> i]

\* lines 128-143: INSERT ... ON CONFLICT (review_id) DO UPDATE of one row; the
\* update leaves bank_id as it is
upsert_review(reviews, r) ==
    IF r.review_id \in DOMAIN reviews
    THEN [reviews EXCEPT ![r.review_id].review_text = r.review_text]
    ELSE [id \in DOMAIN reviews \cup {r.review_id} |->
             IF id = r.review_id
             THEN [bank_id |-> r.bank_id, review_text |-> r.review_text]
             ELSE reviews[id]]

\* conn.execute(insert_sql, chunk): the rows of the chunk, one after the other
RECURSIVE execute_chunk(_, _)
execute_chunk(reviews, chunk) ==
    IF Len(chunk) = 0 THEN reviews
    ELSE execute_chunk(upsert_review(reviews, chunk[1]), Tail(chunk))

\* lines 147-151: the chunks executed in order inside one transaction
RECURSIVE execute_chunks(_, _)
execute_chunks(reviews, chunks) ==
    IF Len(chunks) = 0 THEN reviews
    ELSE execute_chunks(execute_chunk(reviews, chunks[1]), Tail(chunks))

\* count_reviews_by_bank: banks LEFT JOIN reviews, COUNT per bank_name
count_reviews_by_bank(bank_map, reviews) ==
    [b \in DOMAIN bank_map |->
        Cardinality({id \in DOMAIN reviews : reviews[id].bank_id = bank_map[b]})]

\* load_reviews_from_df on empty banks and reviews tables, followed by
\* count_reviews_by_bank: the chunks given to conn.execute, the reviews table
\* and the counts.  A database error rolls the transaction back and is re-raised.
load_reviews_from_df(df_rows, loader_batch, db_error) ==
    IF Len(df_rows) = 0
    THEN [raised |-> FALSE, chunks |-> <<>>, bank_map |-> <<>>, reviews |-> <<>>, counts |-> <<>>]
    ELSE LET bank_map == upsert_banks(df_rows)
             known == {i \in 1..Len(df_rows) : df_rows[i].bank \in DOMAIN bank_map}
             prepared == [i \in 1..Len(df_rows) |->
                             IF i \in known
                             THEN <<prepare_review_row(df_rows[i], i, bank_map)>> ELSE <<>>]
             rows == LET cat[i \in 0..Len(df_rows)] ==
                             IF i = 0 THEN <<>> ELSE cat[i - 1] \o prepared[i]
                     IN  cat[Len(df_rows)]
             chunks == chunked_iterable(rows, loader_batch)
             reviews == IF db_error THEN <<>> ELSE execute_chunks(<<>>, chunks)
         IN  [raised |-> db_error,
              chunks |-> IF db_error THEN <<chunks[1]>> ELSE chunks,
              bank_map |-> bank_map,
              reviews |-> reviews,
              counts |-> count_reviews_by_bank(bank_map, reviews)]

\* ------------------------------------------------------------ calls of the loader
LoadRows == [review_id : {1, 2}, bank : {"A", "B"}, review : {"x", "y"}]

InitLoader ==
    /\ call \in [fn : {"load_reviews_from_df"}, rows : SeqsUpTo(LoadRows, MaxLoadRows),
                 batch_size : 1..MaxLoadBatch, db_error : BOOLEAN]
    /\ ret = Pending
    /\ NoBatch
    /\ NoScrape
    /\ NoScraperPipeline

CallLoadReviews ==
    /\ call.fn = "load_reviews_from_df" /\ ~ret.done
    /\ LET r == load_reviews_from_df(call.rows, call.batch_size, call.db_error)
       IN  ret' = [done |-> TRUE, raised |-> r.raised, value |-> r]
    /\ UNCHANGED <<call, batchVars, scrape, scraper_pipeline>>

NextLoader == CallLoadReviews

SpecLoader == InitLoader /\ [][NextLoader]_vars

\* ------------------------------------------------------------ claims on the sentiment functions
Finished(fn) == call.fn = fn /\ ret.done

\* rows that have a model label, a model confidence and a lexicon label
HasBoth(r) == r.hf_label # NaN /\ r.hf_score.kind = "num" /\ r.sentiment_label # NaN

\* C3 as stated: at or above the threshold the final label is the model's label,
\* below it the lexicon's label.
C3_AsStated ==
    (Finished("compute_final_sentiment") /\ call.df.has_hf /\ call.df.has_vader) =>
        /\ ~ret.raised
        /\ \A k \in 1..Len(call.df.rows) :
              LET r == call.df.rows[k]
              IN  HasBoth(r) =>
                     ret.value[k] = IF r.hf_score.v >= 85 THEN r.hf_label
                                    ELSE r.sentiment_label

\* C3 amended: at or above the threshold (0.85 included) the final label is the
\* model's label, below it the lexicon's label, in both cases replaced by neutral
\* when the chosen string is not one of positive, negative, neutral.
C3_MergeRule ==
    (Finished("compute_final_sentiment") /\ call.df.has_hf /\ call.df.has_vader) =>
        /\ ~ret.raised
        /\ Len(ret.value) = Len(call.df.rows)
        /\ \A k \in 1..Len(call.df.rows) :
              LET r == call.df.rows[k]
                  chosen == IF r.hf_score.v >= 85 THEN r.hf_label ELSE r.sentiment_label
              IN  HasBoth(r) =>
                     ret.value[k] = IF chosen \in {"positive", "negative", "neutral"}
                                    THEN chosen ELSE "neutral"

\* confidence exactly at the threshold, the two engines disagree, the model wins
C3_Witness ==
    /\ Finished("compute_final_sentiment") /\ call.df.has_hf /\ call.df.has_vader
    /\ Len(call.df.rows) >= 1
    /\ call.df.rows[1].hf_score = NumCell(85)
    /\ call.df.rows[1].hf_label = "negative"
    /\ call.df.rows[1].sentiment_label = "positive"
    /\ ~ret.raised /\ ret.value[1] = "negative"

\* C4: for every input table compute_final_sentiment returns, and every value of
\* final_sentiment is one of positive, negative, neutral.
C4_FinalIsCanonical ==
    Finished("compute_final_sentiment") =>
        /\ ~ret.raised
        /\ \A k \in 1..Len(ret.value) : ret.value[k] \in {"positive", "negative", "neutral"}

\* C5 as stated: in both engines positive implies score >= 0, negative implies
\* score <= 0 and neutral implies score = 0.
C5_AsStated ==
    /\ Finished("get_sentiment_score") =>
          /\ ret.value.label = "positive" => ret.value.score >= 0
          /\ ret.value.label = "negative" => ret.value.score <= 0
          /\ ret.value.label = "neutral" => ret.value.score = 0
    /\ Finished("get_sentiment_score_batch") =>
          \A k \in 1..Len(ret.value) :
              /\ ret.value[k].label = "positive" => ret.value[k].score >= 0
              /\ ret.value[k].label = "negative" => ret.value[k].score <= 0
              /\ ret.value[k].label = "neutral" => ret.value[k].score = 0

\* C5 amended: in both engines positive implies score >= 0 and negative implies
\* score <= 0; neutral implies score = 0 in the model engine, and in the lexicon
\* engine only -0.05 < score < 0.05.
C5_SignAgrees ==
    /\ Finished("get_sentiment_score") =>
          /\ ret.value.label = "positive" => ret.value.score >= 0
          /\ ret.value.label = "negative" => ret.value.score <= 0
          /\ ret.value.label = "neutral" => (ret.value.score > -5 /\ ret.value.score < 5)
    /\ Finished("get_sentiment_score_batch") =>
          \A k \in 1..Len(ret.value) :
              /\ ret.value[k].label = "positive" => ret.value[k].score >= 0
              /\ ret.value[k].label = "negative" => ret.value[k].score <= 0
              /\ ret.value[k].label = "neutral" => ret.value[k].score = 0

\* the lexicon engine labelled a text neutral with a score that is not zero
C5_Witness ==
    /\ Finished("get_sentiment_score")
    /\ ret.value.label = "neutral"
    /\ ret.value.score = 3

\* C6: a raw result (L, p) becomes (positive, +p) when L is positive, (negative, -p)
\* when L is negative and (neutral, 0) for any other L, in get_sentiment_score_batch
\* as in hf_to_sentiment_columns (labels compared in lower case).
C6_ModelMapping ==
    /\ Finished("get_sentiment_score_batch") =>
          \A k \in 1..Len(ret.value) :
              LET L == Lower(DictGet(call.results[k], "label", "neutral"))
                  p == DictGet(call.results[k], "score", 0)
              IN  /\ L = "positive" => (ret.value[k].label = "positive" /\ ret.value[k].score = p)
                  /\ L = "negative" => (ret.value[k].label = "negative" /\ ret.value[k].score = 0 - p)
                  /\ L \notin {"positive", "negative"} =>
                        (ret.value[k].label = "neutral" /\ ret.value[k].score = 0)
    /\ (Finished("hf_to_sentiment_columns") /\ ~ret.raised) =>
          \A k \in 1..Len(ret.value) :
              LET L == hf_label_norm(call.df.rows[k].hf_label)
                  p == ToNumeric(call.df.rows[k].hf_score)
                  o == ret.value[k]
              IN  /\ L = "positive" => (o.sentiment_label = "positive" /\ o.sentiment_score = p)
                  /\ L = "negative" => (o.sentiment_label = "negative" /\ o.sentiment_score = 0 - p)
                  /\ L \notin {"positive", "negative"} =>
                        (o.sentiment_label = "neutral" /\ o.sentiment_score = 0)

\* ------------------------------------------------------------ claims on the text functions
\* some phrase of the rule-set item, stripped and not empty, matches the text as a
\* whole word
PhraseHits(item, text) ==
    \E k \in 1..Len(item.kws) :
        LET kw == str_strip(item.kws[k])
        IN  kw # <<>> /\ pat_search(kw, text)

\* C7: rule_assign_themes(text, compile_keyword_patterns(rules)) returns keys of the
\* rule set only, in strictly increasing declaration order (so none twice), a theme
\* is returned exactly when one of its phrases matches the text, and a missing or
\* empty text gives the empty list.
C7_ThemesInDeclarationOrder ==
    Finished("rule_assign_themes") =>
        LET got == ret.value
            rules == call.rules
            idx(t) == CHOOSE j \in 1..Len(rules) : rules[j].theme = t
            has_text == call.text.is_str /\ call.text.s # <<>>
        IN  /\ \A k \in 1..Len(got) : \E j \in 1..Len(rules) : rules[j].theme = got[k]
            /\ \A i \in 1..Len(got) : \A j \in 1..Len(got) :
                  i < j => idx(got[i]) < idx(got[j])
            /\ \A j \in 1..Len(rules) :
                  (\E k \in 1..Len(got) : got[k] = rules[j].theme)
                      <=> (has_text /\ PhraseHits(rules[j], call.text.s))
            /\ ~has_text => got = <<>>

\* two themes returned, one of them with two phrases that match
C7_Witness ==
    /\ Finished("rule_assign_themes")
    /\ call.rules = OtherRules
    /\ call.text = Str(<<"a", "p", "p", " ", "c", "r", "a", "s", "h">>)
    /\ ret.value = <<"Performance", "Stability">>

\* C8 as stated: with the example rules the first review gets primary theme
\* Stability and the second Performance, with or without the lemmatizer.
C8_AsStated ==
    (Finished("theme_row") /\ call.rules = ExampleRules) =>
        /\ call.review = Str(Review1) => ret.value.theme_primary = "Stability"
        /\ call.review = Str(Review2) => ret.value.theme_primary = "Performance"

\* C8 amended: the second review gets Performance with or without the lemmatizer;
\* the first gets Stability when the lemmatizer is available and no theme when it
\* is not.
C8_ExamplePrimaryThemes ==
    (Finished("theme_row") /\ call.rules = ExampleRules) =>
        /\ call.review = Str(Review1) =>
              ret.value.theme_primary = IF call.env.lemmatizer THEN "Stability" ELSE NoTheme
        /\ call.review = Str(Review2) => ret.value.theme_primary = "Performance"

\* the first review, normalized with the lemmatizer, assigned Stability
C8_Witness ==
    /\ Finished("theme_row") /\ call.rules = ExampleRules
    /\ call.review = Str(Review1)
    /\ call.env.lemmatizer
    /\ ret.value.txt_clean = <<"a", "p", "p", " ", "c", "r", "a", "s", "h", " ", "l", "o", "g", "i", "n">>
    /\ ret.value.theme_primary = "Stability"

\* C9: normalizing a normalized text changes nothing.
C9_Idempotent ==
    Finished("preprocess_text") => preprocess_text(Str(ret.value), call.env) = ret.value

\* C10: the keywords field of a row holds at most top_k keywords.
C10_AtMostTopK ==
    Finished("attach_top_keywords_to_df") => Len(keywords_of(ret.value)) <= call.top_k

\* the text the candidate patterns are searched in (lines 128-132)
TextProc ==
    LET text == IF call.text.is_str THEN call.text.s ELSE <<>>
        words == str_split(str_lower(text))
    IN  IF call.lemmatizer
        THEN str_join(<<" ">>, [k \in 1..Len(words) |-> lemmatize(words[k])])
        ELSE str_lower(text)

\* the priority of C12: a multi-word term before a single-word term, and in one
\* class the longer term first
HigherPriority(a, b) ==
    \/ HasSpace(a) /\ ~HasSpace(b)
    \/ HasSpace(a) = HasSpace(b) /\ Len(a) > Len(b)

\* C12: with top_k >= 1 the keywords kept for a row are matching candidates, and
\* no matching candidate that was left out has a higher priority (multi-word
\* first, then longer first) than a keyword that was kept.
C12_LongestFirst ==
    (Finished("attach_top_keywords_to_df") /\ ~call.global_tfidf.is_none /\ call.top_k >= 1) =>
        LET kept == keywords_of(ret.value)
            cands == call.global_tfidf.terms
            IsKept(c) == \E k \in 1..Len(kept) : kept[k] = c
        IN  \A j \in 1..Len(cands) :
                (pat_search(cands[j], TextProc) /\ ~IsKept(cands[j])) =>
                    \A k \in 1..Len(kept) : ~HigherPriority(cands[j], kept[k])

\* ------------------------------------------------------------ claims on the keyword pipeline
\* C11: in run_pipeline every keyword attached to a row belongs to the term list
\* computed for the row's own group.
C11_KeywordsFromOwnGroup ==
    Finished("run_pipeline") =>
        \A i \in 1..Len(call.rows) :
            LET kws == keywords_of(ret.value.keywords[i])
                own == ret.value.top_keywords_dict[call.rows[i].bank]
            IN  \A k \in 1..Len(kws) : \E j \in 1..Len(own) : own[j] = kws[k]

\* C13: extract_tfidf_keywords_per_group returns a list for every group of the
\* input and for no other, each of at most top_n distinct terms of the group's
\* own documents; a group whose vectorization raises gets the empty list and the
\* other groups get the lists they would get alone.
C13_TermsPerGroup ==
    Finished("extract_tfidf_keywords_per_group") =>
        /\ ~ret.raised
        /\ DOMAIN ret.value = group_keys(call.rows)
        /\ \A g \in DOMAIN ret.value :
              LET docs == group_docs(call.rows, g)
                  l == ret.value[g]
              IN  /\ Len(l) <= call.top_n
                  /\ fit_transform(docs).raised => l = <<>>
                  /\ \A k \in 1..Len(l) : \E i \in 1..Len(docs) : l[k] \in ngrams(docs[i])
                  /\ l \in group_terms(docs, call.top_n)

\* one group has no term at all, the other one gets its term
C13_Witness ==
    /\ Finished("extract_tfidf_keywords_per_group")
    /\ call.top_n = 1
    /\ Len(call.rows) = 2
    /\ call.rows[1] = [bank |-> "A", txt |-> PyNone]
    /\ call.rows[2].bank = "B"
    /\ ret.value["A"] = <<>>
    /\ ret.value["B"] = <<<<"c", "r", "a", "s", "h">>>>

\* ------------------------------------------------------------ claims on the aggregators
\* the rows of the input of a bank, and those of them that carry a theme
RowsOfBank(bank) == {i \in 1..Len(call.rows) : call.rows[i].bank = bank}

Carries(i, t) ==
    IF call.fn = "theme_share_plot"
    THEN call.rows[i].theme.is_str
            /\ \E k \in 1..Len(split_pipe(call.rows[i].theme.s)) :
                  split_pipe(call.rows[i].theme.s)[k] = t
    ELSE call.rows[i].theme_primary = Str(t)

\* C14: in every theme-share table the pct of a (bank, theme) row is 100 times
\* the number of the bank's rows that carry the theme divided by the number of
\* all rows of the bank.
C14_PctOfBankRows ==
    /\ Finished("_agg_theme_stats") =>
          \A k \in 1..Len(ret.value) :
              LET r == ret.value[k]
                  with == {i \in RowsOfBank(r.bank) : Carries(i, r.theme_primary)}
              IN  r.pct.num * Cardinality(RowsOfBank(r.bank))
                     = 100 * Cardinality(with) * r.pct.den
    /\ Finished("theme_share_plot") =>
          \A r \in ret.value :
              LET with == {i \in RowsOfBank(r.bank) : Carries(i, r.theme)}
              IN  r.pct.num * Cardinality(RowsOfBank(r.bank))
                     = 100 * Cardinality(with) * r.pct.den

\* every row of the bank carries exactly one theme
SingleLabel(bank) ==
    /\ RowsOfBank(bank) # {}
    /\ \A i \in RowsOfBank(bank) : \E t \in {<<"P">>, <<"S">>} :
          IF call.fn = "theme_share_plot" THEN call.rows[i].theme = Str(t)
          ELSE call.rows[i].theme_primary = Str(t)

\* the sum of the pct fractions of a list of aggregate rows that share the
\* divisor den, times den
RECURSIVE SumPctNum(_)
SumPctNum(s) == IF Len(s) = 0 THEN 0 ELSE s[1].pct.num + SumPctNum(Tail(s))

\* C15: when every row of a bank carries exactly one theme, the pct values of the
\* bank's aggregate rows sum to 100, also when review texts are null.
C15_SingleLabelSumsTo100 ==
    /\ Finished("_agg_theme_stats") =>
          \A bank \in {"A", "B"} :
              SingleLabel(bank) =>
                  LET own == SelectSeq(ret.value, LAMBDA r : r.bank = bank)
                  IN  Len(own) > 0 /\ SumPctNum(own) = 100 * own[1].pct.den
    /\ Finished("theme_share_plot") =>
          \A bank \in {"A", "B"} :
              SingleLabel(bank) =>
                  LET own(t) == {r \in ret.value : r.bank = bank /\ r.theme = t}
                      num(t) == IF own(t) = {} THEN 0 ELSE (CHOOSE r \in own(t) : TRUE).pct.num
                      den == (CHOOSE r \in ret.value : r.bank = bank).pct.den
                  IN  num(<<"P">>) + num(<<"S">>) = 100 * den

\* C16: the mean sentiment of an aggregate row is the sum of the non-null scores
\* of its rows divided by their number: a null score counts in neither.
C16_MeanIgnoresNull ==
    (Finished("generate_report_md") \/ Finished("_agg_theme_stats")) =>
        \A k \in 1..Len(ret.value) :
            LET r == ret.value[k]
                scored == {i \in RowsOfBank(r.bank) :
                              /\ Carries(i, r.theme_primary)
                              /\ call.rows[i].sentiment_score.kind = "num"}
                vals == SelectSeq(call.rows, LAMBDA x : /\ x.bank = r.bank
                                                        /\ x.theme_primary = Str(r.theme_primary)
                                                        /\ x.sentiment_score.kind = "num")
            IN  /\ r.avg_sentiment.n = Cardinality(scored)
                /\ r.avg_sentiment.sum = sum_scores(vals)

\* ------------------------------------------------------------ claims on the model engine and its columns
\* C17: a batch of 32 empty texts gives 32 results, each neutral with score 0,
\* whatever the classifier answers for an empty text.
C17_EmptyBatchNeutral ==
    (Finished("get_sentiment_score_batch") /\ "texts" \in DOMAIN call /\ call.texts = EmptyBatch) =>
        /\ ~ret.raised
        /\ Len(ret.value) = Len(call.texts)
        /\ \A k \in 1..Len(ret.value) : ret.value[k] = Result("neutral", 0)

\* the batches whose results were replaced by neutral defaults, in the engine
\* (lines 38-40) or by the collector (lines 86-89)
Substituted ==
    {b \in Batches : fstate[b] = "collected"
                        /\ (foutcome[b] = "raise" \/ future_result(b).raised)}

\* C18: after a run in which batches failed, a failure count is recorded with the
\* returned table, and it is the number of batches that were given neutral
\* defaults.
C18_FailuresCounted ==
    (pc = "returned" /\ Substituted # {}) =>
        /\ "failure_count" \in DOMAIN df
        /\ df.failure_count = Cardinality(Substituted)

\* C19: the table hf_to_sentiment_columns returns has the hf_label and hf_score
\* values of the input in every row.
C19_HfColumnsUntouched ==
    (Finished("hf_to_sentiment_columns") /\ ~ret.raised) =>
        /\ Len(ret.value) = Len(call.df.rows)
        /\ \A k \in 1..Len(ret.value) :
              /\ ret.value[k].hf_label = call.df.rows[k].hf_label
              /\ NumCell(ret.value[k].hf_score) = call.df.rows[k].hf_score

\* ------------------------------------------------------------ claims on the scraper
\* the number of reviews the first k requests returned
RECURSIVE CollectedBy(_)
CollectedBy(k) ==
    IF k = 0 THEN 0
    ELSE CollectedBy(k - 1) + (IF scrape.requests[k].raised THEN 0 ELSE scrape.requests[k].len)

\* the reviews of the pages of the first k requests, in order
RECURSIVE PagesUpTo(_)
PagesUpTo(k) ==
    IF k = 0 THEN <<>>
    ELSE PagesUpTo(k - 1)
            \o (IF scrape.requests[k].raised THEN <<>>
                ELSE [j \in 1..scrape.requests[k].len |-> standardized_review(k, j)])

C26_ResultsFilled ==
    AllCollected =>
        /\ Len(results) = n
        /\ \A i \in 1..Len(results) : ~results[i].isNone

\* ------------------------------------------------------------ claims on the scraper's loop
\* C27: the pagination loop terminates whatever the source answers: an iteration
\* that does not leave the loop strictly increases the number of collected
\* reviews, never more than max_reviews requests are made, and the function
\* returns.
C27_LoopTerminates ==
    /\ [](Len(scrape.requests) <= call.max_reviews)
    /\ [][(scrape.pc = "loop" /\ scrape'.pc = "loop")
             => Len(scrape'.all_reviews) > Len(scrape.all_reviews)]_vars
    /\ <>(scrape.pc = "returned")

\* the bound is met: MaxReviews requests, each answered by one review and a token
C27_Witness ==
    /\ Finished("scrape_app_reviews")
    /\ call.max_reviews = MaxReviews
    /\ Len(scrape.requests) = MaxReviews
    /\ \A k \in 1..Len(scrape.requests) : scrape.requests[k].len = 1

\* ------------------------------------------------------------ claims on run_scraper_pipeline
\* positions in the log of the calls made for app a
CallIdx(a) == {k \in 1..Len(scraper_pipeline.calls) : scraper_pipeline.calls[k].app = a}

\* the reviews the first k calls returned, in call order
RECURSIVE ReturnedBy(_)
ReturnedBy(k) ==
    IF k = 0 THEN <<>> ELSE ReturnedBy(k - 1) \o scraper_pipeline.calls[k].reviews

\* C21: for every configured app the calls are at most retries + 1, every call
\* before the last one raised (so an app whose call returns is called once, also
\* when it returns no reviews), and once the loop over the apps has ended every
\* app has been called until a call returned or retries + 1 calls raised; the
\* table returned and the table saved hold the reviews of the returned calls.
C21_EachAppScraped ==
    LET p == scraper_pipeline
        calls == p.calls
    IN  p.pc # "idle" =>
        /\ \A a \in 1..p.n_apps :
              /\ Cardinality(CallIdx(a)) <= p.retries + 1
              /\ \A j \in CallIdx(a), k \in CallIdx(a) :
                    j < k => calls[j].outcome = "raised"
              /\ p.pc \in {"after_loop", "returned"} =>
                    \E k \in CallIdx(a) :
                        \/ calls[k].outcome = "returned"
                        \/ /\ calls[k].outcome = "raised"
                           /\ Cardinality(CallIdx(a)) = p.retries + 1
        /\ \A j \in 1..Len(calls), k \in 1..Len(calls) : j < k => calls[j].app <= calls[k].app
        /\ p.all_reviews = ReturnedBy(Len(calls))
        /\ (p.pc = "returned" /\ ReturnedBy(Len(calls)) # <<>>) =>
              /\ p.df = Table(ReturnedBy(Len(calls)))
              /\ p.save_raw => p.raw_csv \in {NoTable, Table(ReturnedBy(Len(calls)))}
        /\ ~p.raw_csv.is_none => p.raw_csv.rows = ReturnedBy(Len(calls))

\* the first app failed on all its attempts, the second was scraped all the
\* same, and its reviews were saved
C21_Witness ==
    LET p == scraper_pipeline
    IN  /\ p.pc = "returned"
        /\ p.n_apps = 2 /\ p.retries = 1
        /\ p.failed = {1}
        /\ Len(p.calls) = 3
        /\ p.calls[3].outcome = "returned"
        /\ Len(p.calls[3].reviews) >= 2
        /\ ~p.raw_csv.is_none

\* C28: a request that raises inside scrape_app_reviews is the last request of
\* the call, the call returns the reviews of the earlier pages without raising,
\* and run_scraper_pipeline makes no further attempt for that app.
C28_RequestErrorNotPropagated ==
    LET reqs == scrape.requests
        calls == scraper_pipeline.calls
    IN  /\ \A k \in 1..Len(reqs) :
              reqs[k].raised =>
                  /\ k = Len(reqs)
                  /\ scrape.pc # "loop"
                  /\ scrape.all_reviews = PagesUpTo(k - 1)
                  /\ ret.done => (~ret.raised /\ ret.value = PagesUpTo(k - 1))
        /\ \A k \in 1..Len(calls) :
              calls[k].request_error =>
                  /\ calls[k].outcome = "returned"
                  /\ \A j \in 1..Len(calls) : j > k => calls[j].app # calls[k].app

\* the second request of a call raised with retries left: the call returned the
\* first page and the pipeline went on without a second attempt
C28_Witness ==
    LET p == scraper_pipeline
    IN  /\ p.pc = "returned"
        /\ p.retries = 1
        /\ Len(p.calls) = p.n_apps
        /\ p.calls[1].request_error
        /\ Len(p.calls[1].reviews) >= 1
        /\ p.all_reviews # <<>>

\* ------------------------------------------------------------ claims on the keywords column
\* C29: the keywords field run_pipeline writes for a row never holds the same
\* term twice.
C29_NoDuplicateKeywords ==
    Finished("run_pipeline") =>
        \A i \in 1..Len(ret.value.keywords) :
            LET kw == keywords_of(ret.value.keywords[i])
            IN  \A j \in 1..Len(kw), k \in 1..Len(kw) : j # k => kw[j] # kw[k]

\* ------------------------------------------------------------ claims on the bank section
\* C25: every theme generate_bank_section lists as a driver has a positive
\* average sentiment, every theme it lists as a pain point a negative one, and no
\* theme is listed as both.
C25_DriversPositivePainsNegative ==
    Finished("generate_bank_section") =>
        LET drivers == ret.value.drivers
            pains == ret.value.pains
        IN  /\ \A k \in 1..Len(drivers) : drivers[k].avg_sentiment.sum > 0
            /\ \A k \in 1..Len(pains) : pains[k].avg_sentiment.sum < 0
            /\ \A j \in 1..Len(drivers), k \in 1..Len(pains) :
                  drivers[j].theme_primary # pains[k].theme_primary

\* ------------------------------------------------------------ claims on clean_reviews
\* the input rows that are valid: cleaned text longer than 2, a numeric rating
ValidRow(i) ==
    /\ Len(clean_text(call.rows[i].review)) > 2
    /\ call.rows[i].rating.kind = "num"

\* C22: no two output rows share a review_id, every output row is the first
\* input row of its review_id, the output rows are in their input order, and the
\* index of the output is 0..n-1.
C22_FirstOccurrenceKept ==
    Finished("clean_reviews") =>
        LET out == ret.value
        IN  /\ \A j \in 1..Len(out), k \in 1..Len(out) :
                  j # k => out[j].review_id # out[k].review_id
            /\ \A k \in 1..Len(out) :
                  /\ out[k].review_id = call.rows[out[k].row].review_id
                  /\ \A i \in 1..(out[k].row - 1) :
                        call.rows[i].review_id # out[k].review_id
                  /\ out[k].index = k - 1
            /\ \A j \in 1..Len(out), k \in 1..Len(out) : j < k => out[j].row < out[k].row

\* a duplicated review_id followed by another one: both are kept, the duplicate
\* is gone, the index is 0, 1
C22_Witness ==
    /\ Finished("clean_reviews")
    /\ Len(call.rows) = 3
    /\ call.rows[1].review_id = call.rows[2].review_id
    /\ call.rows[3].review_id # call.rows[1].review_id
    /\ Len(ret.value) = 2
    /\ ret.value[1].row = 1 /\ ret.value[2].row = 3
    /\ ret.value[2].index = 1

\* C23: every output row holds the cleaned text of its input row, longer than 2
\* characters, and its rating as a number; an input row whose text is missing or
\* not longer than 2 after cleaning, or whose rating is missing or no number, is
\* not in the output.
C23_OutputRowsValid ==
    Finished("clean_reviews") =>
        \A k \in 1..Len(ret.value) :
            LET r == ret.value[k]
            IN  /\ r.review = clean_text(call.rows[r.row].review)
                /\ Len(r.review) > 2
                /\ r.rating.kind = "num"
                /\ r.rating = call.rows[r.row].rating
                /\ ValidRow(r.row)

\* a valid row was kept while a row short after cleaning, a row without text
\* and rows with a missing or a non-numeric rating were in the input
C23_Witness ==
    /\ Finished("clean_reviews")
    /\ Len(ret.value) = 1
    /\ Len(call.rows) = 3
    /\ \E i \in 1..Len(call.rows) :
          call.rows[i].review.is_str /\ Len(clean_text(call.rows[i].review)) = 2
    /\ \E i \in 1..Len(call.rows) :
          call.rows[i].rating.kind # "num" /\ Len(clean_text(call.rows[i].review)) > 2

\* C30: a review_id that has a valid row in the input has a row in the output.
C30_ValidIdNotLost ==
    Finished("clean_reviews") =>
        \A i \in 1..Len(call.rows) :
            ValidRow(i) =>
                \E k \in 1..Len(ret.value) : ret.value[k].review_id = call.rows[i].review_id

\* ------------------------------------------------------------ claims on the loader
\* the rows submitted, chunk after chunk
RECURSIVE Submitted(_)
Submitted(chunks) == IF Len(chunks) = 0 THEN <<>> ELSE chunks[1] \o Submitted(Tail(chunks))

\* every input row was submitted once, in input order, in chunks of 1 to
\* batch_size rows
ChunksCoverInput ==
    LET chunks == ret.value.chunks
        sub == Submitted(chunks)
    IN  /\ Len(sub) = Len(call.rows)
        /\ \A i \in 1..Len(sub) :
              /\ sub[i].row = i
              /\ sub[i].review_id = call.rows[i].review_id
              /\ sub[i].review_text = call.rows[i].review
              /\ sub[i].bank_id = ret.value.bank_map[call.rows[i].bank]
        /\ \A c \in 1..Len(chunks) : Len(chunks[c]) \in 1..call.batch_size

====
